---- MODULE Spec2Model ----
(***************************************************************************)
(* Model of go-router's documentation core: the process-wide type registry *)
(* (metadata/types.go) and the OpenAPI document generator                  *)
(* (openapi/generator.go, openapi/spec.go, openapi/converter.go).          *)
(*                                                                         *)
(* Strings are sequences of one-character strings, so that sanitizing,     *)
(* prefix tests and concatenation are computed character by character.     *)
(***************************************************************************)
EXTENDS Integers, Sequences, FiniteSets, TLC

VARIABLES
    types,      \* globalTypeRegistry.types : key -> pointer (index in entries)
    entries,    \* the heap of *TypeRegistryEntry values
    mu,         \* globalTypeRegistry.mu : "free" or the goroutine holding it
    pc,         \* position of every goroutine inside RegisterType
    loc,        \* locals of every goroutine: t, entry, ret
    calls,      \* number of RegisterType calls started
    log,        \* history: <<identity, returned name>> in order of return
    lin,        \* history: registry after the returned calls, run one by one
    routes,     \* Router.routes: the metadata of the registered routes
    routeOpts,  \* history: the options every route was registered with
    schemas,    \* Generator.schemas: the component table
    spec,       \* the document the last Generate call returned
    specSel,    \* history: the positions in routes of the routes it was given
    gens,       \* number of Generate calls
    build,      \* one SchemaFromType call: its input and its call stack
    call,       \* one call of a string or path function: argument and result
    routers,    \* the Router values: the root router and its groups
    mux,        \* Router.mux, shared by the groups: pattern -> handler
    now,        \* number of Use, Group and Handle calls made so far
    served,     \* history: what the last request ran, outermost first
    specURL     \* SwaggerUIIntegration.UIConfig.SpecURL

regVars == <<types, entries, mu, pc, loc, calls, log, lin>>

genVars == <<routes, routeOpts, schemas, spec, specSel, gens>>

fnVars == <<build, call>>

rtVars == <<routers, mux, now, served>>

uiVars == <<specURL>>

vars == <<regVars, genVars, fnVars, rtVars, uiVars>>

----------------------------------------------------------------------------
(* Bounds *)

MaxCalls == 4

MaxRoutes == 3

MaxGenerates == 2

\* frames the goroutine stack holds before the runtime stops the program
MaxStack == 8

\* length of the strings handed to the string functions
MaxLen == 3

\* length of the paths handed to normalizePath
MaxPathLen == 5

\* the status codes converted are -MaxCode .. MaxCode
MaxCode == 599

\* number of Router values: the root and its groups
MaxRouters == 2

\* number of Use, Group and Handle calls
MaxRouterCalls == 5

\* number of tags, and of security requirements, set on one router
MaxTags == 2

Procs == {"g1", "g2"}

(* The composite types the program declares: (PkgPath, Name) pairs.  Three
   packages declare a type T; two of the package paths differ only in a
   character that SanitizeSchemaName rewrites. *)
PkgAB == <<"a", ".", "b">>
PkgA_B == <<"a", "/", "b">>
PkgC == <<"c">>
PkgX == <<"x">>
NameT == <<"T">>
NameC_T == <<"c", "_", "T">>

TypeIds ==
    { [PkgPath |-> PkgAB, Name |-> NameT],
      [PkgPath |-> PkgA_B, Name |-> NameT],
      [PkgPath |-> PkgC, Name |-> NameT],
      [PkgPath |-> PkgX, Name |-> NameC_T] }

----------------------------------------------------------------------------
(* Strings and maps *)

ReplaceAll(s, old, new) ==
    [i \in 1..Len(s) |-> IF s[i] = old THEN new ELSE s[i]]

\* mutation: '-' is left in place
SanitizeSchemaName_KeepDash(name) ==
    ReplaceAll(ReplaceAll(name, ".", "_"), "/", "_")

SanitizeSchemaName(name) ==
    ReplaceAll(ReplaceAll(ReplaceAll(name, ".", "_"), "/", "_"), "-", "_")

MapSet(m, k, v) == [x \in (DOMAIN m) \cup {k} |-> IF x = k THEN v ELSE m[x]]

MapDelete(m, k) == [x \in (DOMAIN m) \ {k} |-> m[x]]

\* the value of a one-element set: a local variable bound once,
\* as in  x := f(...)  followed by uses of x
Only(S) == CHOOSE x \in S : TRUE

EmptyMap == [x \in {} |-> 0]

FullID(pkgPath, name) == pkgPath \o <<".">> \o name

QualifiedName(pkgPath, name) == SanitizeSchemaName(pkgPath \o <<"_">> \o name)

NewEntry(name, pkgPath, finalName) ==
    [Name |-> name, PkgPath |-> pkgPath, Count |-> 1, FinalName |-> finalName]

----------------------------------------------------------------------------
(* RegisterType, statement by statement.  Every operator takes the registry
   r = [types, entries] and the caller's locals l = [pc, t, entry, ret] and
   returns the pair after the statement. *)

NoLocals == [pc |-> "idle", t |-> [PkgPath |-> <<>>, Name |-> <<>>], entry |-> 0, ret |-> <<>>]

\* mutation: the exact lookup returns the bare name, not entry.FinalName
ExactLookup_BareName(r, l) ==
    LET fullID == FullID(l.t.PkgPath, l.t.Name) IN
    IF fullID \in DOMAIN r.types
    THEN LET e == r.types[fullID] IN
         [r |-> [r EXCEPT !.entries[e].Count = @ + 1],
          l |-> [l EXCEPT !.pc = "unlock", !.entry = e, !.ret = l.t.Name]]
    ELSE [r |-> r, l |-> [l EXCEPT !.pc = "base"]]

\* types.go:133-137  exact lookup by fullID
ExactLookup(r, l) ==
    LET fullID == FullID(l.t.PkgPath, l.t.Name) IN
    IF fullID \in DOMAIN r.types
    THEN LET e == r.types[fullID] IN
         [r |-> [r EXCEPT !.entries[e].Count = @ + 1],
          l |-> [l EXCEPT !.pc = "unlock", !.entry = e, !.ret = r.entries[e].FinalName]]
    ELSE [r |-> r, l |-> [l EXCEPT !.pc = "base"]]

\* mutation: the original entry is renamed whatever its Count
NeedsRename_AnyCount(entry, name) == entry.FinalName = name

\* types.go:144  the original entry is renamed on its first collision only
NeedsRename(entry, name) == entry.Count = 1 /\ entry.FinalName = name

\* types.go:140-144  lookup by base name
BaseLookup(r, l) ==
    IF l.t.Name \in DOMAIN r.types
    THEN LET e == r.types[l.t.Name] IN
         [r |-> r,
          l |-> [l EXCEPT !.entry = e,
                          !.pc = IF NeedsRename(r.entries[e], l.t.Name)
                                 THEN "rename" ELSE "insert"]]
    ELSE [r |-> r, l |-> [l EXCEPT !.pc = "first"]]

\* types.go:146-150  entry.FinalName = origQualifiedName
RenameOrig(r, l) ==
    LET e == r.entries[l.entry] IN
    [r |-> [r EXCEPT !.entries[l.entry].FinalName = QualifiedName(e.PkgPath, e.Name)],
     l |-> [l EXCEPT !.pc = "rekey"]]

\* types.go:153  types[origFullID] = entry
RekeyOrig(r, l) ==
    LET e == r.entries[l.entry] IN
    [r |-> [r EXCEPT !.types = MapSet(r.types, FullID(e.PkgPath, e.Name), l.entry)],
     l |-> [l EXCEPT !.pc = "delete"]]

\* types.go:154  delete(types, name)
DeleteBase(r, l) ==
    [r |-> [r EXCEPT !.types = MapDelete(r.types, l.t.Name)],
     l |-> [l EXCEPT !.pc = "insert"]]

\* types.go:158-167  register the new type under its package-qualified name
InsertQualified(r, l) ==
    LET qualifiedName == QualifiedName(l.t.PkgPath, l.t.Name)
        p == Len(r.entries) + 1
    IN  [r |-> [types |-> MapSet(r.types, FullID(l.t.PkgPath, l.t.Name), p),
                entries |-> Append(r.entries, NewEntry(l.t.Name, l.t.PkgPath, qualifiedName))],
         l |-> [l EXCEPT !.pc = "unlock", !.entry = p, !.ret = qualifiedName]]

\* types.go:171-182  first time seeing this name
InsertFirst(r, l) ==
    LET p == Len(r.entries) + 1 IN
    [r |-> [types |-> MapSet(MapSet(r.types, l.t.Name, p),
                             FullID(l.t.PkgPath, l.t.Name), p),
            entries |-> Append(r.entries, NewEntry(l.t.Name, l.t.PkgPath, l.t.Name))],
     l |-> [l EXCEPT !.pc = "unlock", !.entry = p, !.ret = l.t.Name]]

StepOf(r, l) ==
    CASE l.pc = "exact"  -> ExactLookup(r, l)
      [] l.pc = "base"   -> BaseLookup(r, l)
      [] l.pc = "rename" -> RenameOrig(r, l)
      [] l.pc = "rekey"  -> RekeyOrig(r, l)
      [] l.pc = "delete" -> DeleteBase(r, l)
      [] l.pc = "insert" -> InsertQualified(r, l)
      [] l.pc = "first"  -> InsertFirst(r, l)

RECURSIVE RunLocked(_, _)
RunLocked(r, l) ==
    IF l.pc = "unlock" THEN [r |-> r, l |-> l]
    ELSE Only({RunLocked(s.r, s.l) : s \in {StepOf(r, l)}})

\* types.go:124-183  one whole RegisterType call run alone on registry r
RegisterType(r, t) == RunLocked(r, [NoLocals EXCEPT !.pc = "exact", !.t = t])

----------------------------------------------------------------------------
(* The registry as goroutines calling RegisterType *)

\* no SchemaFromType call was made
NoBuild == [status |-> "idle", input |-> <<>>, stack |-> <<>>]

\* no function call was made
NoCall == [fn |-> "", arg |-> <<>>, ret |-> <<>>]

Reg == [types |-> types, entries |-> entries]

\* types.go:117-121  init()
InitReg ==
    /\ types = EmptyMap
    /\ entries = <<>>
    /\ mu = "free"
    /\ pc = [p \in Procs |-> "idle"]
    /\ loc = [p \in Procs |-> NoLocals]
    /\ calls = 0
    /\ log = <<>>
    /\ lin = [types |-> EmptyMap, entries |-> <<>>]
    /\ routes = <<>>
    /\ routeOpts = <<>>
    /\ schemas = EmptyMap
    /\ spec = [Paths |-> EmptyMap, Schemas |-> EmptyMap]
    /\ specSel = <<>>
    /\ gens = 0
    /\ build = NoBuild
    /\ call = NoCall
    /\ routers = <<>>
    /\ mux = EmptyMap
    /\ now = 0
    /\ served = <<>>
    /\ specURL = ""

\* a goroutine calls RegisterType(t)
Call(p, t) ==
    /\ pc[p] = "idle"
    /\ calls < MaxCalls
    /\ calls' = calls + 1
    /\ pc' = [pc EXCEPT ![p] = "lock"]
    /\ loc' = [loc EXCEPT ![p] = [NoLocals EXCEPT !.pc = "lock", !.t = t]]
    /\ UNCHANGED <<types, entries, mu, log, lin>>

\* mutation: Lock never waits
LockFree_Always(m) == TRUE

\* sync.RWMutex.Lock: may proceed only when nobody holds the lock
LockFree(m) == m = "free"

\* types.go:125  globalTypeRegistry.mu.Lock()
Lock(p) ==
    /\ pc[p] = "lock"
    /\ LockFree(mu)
    /\ mu' = p
    /\ pc' = [pc EXCEPT ![p] = "exact"]
    /\ loc' = [loc EXCEPT ![p].pc = "exact"]
    /\ UNCHANGED <<types, entries, calls, log, lin>>

Apply(p, at) ==
    /\ pc[p] = at
    /\ LET s == StepOf(Reg, loc[p]) IN
        /\ types' = s.r.types
        /\ entries' = s.r.entries
        /\ loc' = [loc EXCEPT ![p] = s.l]
        /\ pc' = [pc EXCEPT ![p] = s.l.pc]
    /\ UNCHANGED <<mu, calls, log, lin>>

StepExact(p) == Apply(p, "exact")
StepBase(p) == Apply(p, "base")
StepRename(p) == Apply(p, "rename")
StepRekey(p) == Apply(p, "rekey")
StepDelete(p) == Apply(p, "delete")
StepInsert(p) == Apply(p, "insert")
StepFirst(p) == Apply(p, "first")

\* types.go:126  deferred mu.Unlock(), then the return
Unlock(p) ==
    /\ pc[p] = "unlock"
    /\ mu' = "free"
    /\ log' = Append(log, [t |-> loc[p].t, name |-> loc[p].ret])
    /\ lin' = RegisterType(lin, loc[p].t).r
    /\ pc' = [pc EXCEPT ![p] = "idle"]
    /\ loc' = [loc EXCEPT ![p].pc = "idle"]
    /\ UNCHANGED <<types, entries, calls>>

NextReg ==
    /\ \E p \in Procs :
          \/ \E t \in TypeIds : Call(p, t)
          \/ Lock(p)
          \/ StepExact(p)
          \/ StepBase(p)
          \/ StepRename(p)
          \/ StepRekey(p)
          \/ StepDelete(p)
          \/ StepInsert(p)
          \/ StepFirst(p)
          \/ Unlock(p)
    /\ UNCHANGED <<genVars, fnVars, rtVars, uiVars>>

SpecReg == InitReg /\ [][NextReg]_vars

----------------------------------------------------------------------------
(* Go types (reflect.Type), as the schema builder sees them *)

NoTag == <<>>

Field(name, exported, json, validate, type) ==
    [Name |-> name, Exported |-> exported, Json |-> json,
     Validate |-> validate, Type |-> type]

Prim(kind) == [Kind |-> kind, Name |-> <<kind>>, PkgPath |-> <<>>, Elem |-> <<>>, Fields |-> <<>>]

SliceOf(t) == [Kind |-> "slice", Name |-> <<>>, PkgPath |-> <<>>, Elem |-> <<t>>, Fields |-> <<>>]

PtrTo(t) == [Kind |-> "ptr", Name |-> <<>>, PkgPath |-> <<>>, Elem |-> <<t>>, Fields |-> <<>>]

Struct(pkgPath, name, fields) ==
    [Kind |-> "struct", Name |-> name, PkgPath |-> pkgPath, Elem |-> <<>>, Fields |-> fields]

PkgModel == <<"m">>
PkgApiV1 == <<"api", "/", "v1">>

\* time.Time: a struct with unexported fields only
TimeTime ==
    Struct(<<"time">>, <<"Time">>,
           << Field(<<"wall">>, FALSE, NoTag, NoTag, Prim("uint64")),
              Field(<<"ext">>, FALSE, NoTag, NoTag, Prim("int64")) >>)

\* package m: type Labels map[string]string
Labels == [Kind |-> "map", Name |-> <<"Labels">>, PkgPath |-> PkgModel,
           Elem |-> <<Prim("string")>>, Fields |-> <<>>]

\* package m: type Address struct { Street string `json:"street" validate:"required"` }
Address ==
    Struct(PkgModel, <<"Address">>,
           << Field(<<"Street">>, TRUE, <<"street">>, <<"required">>, Prim("string")) >>)

\* package m: type User struct {
\*     Name string  `json:"name,omitempty" validate:"required,min=2,max=5"`
\*     Age  int     `validate:"min=0,max=9"`
\*     Home Address `json:"home"`
\*     pass string }
User ==
    Struct(PkgModel, <<"User">>,
           << Field(<<"Name">>, TRUE, <<"name", ",", "omitempty">>,
                    <<"required", ",", "min", "=", "2", ",", "max", "=", "5">>, Prim("string")),
              Field(<<"Age">>, TRUE, NoTag, <<"min", "=", "0", ",", "max", "=", "9">>, Prim("int")),
              Field(<<"Home">>, TRUE, <<"home">>, NoTag, Address),
              Field(<<"pass">>, FALSE, NoTag, NoTag, Prim("string")) >>)

\* package api/v1: type User struct { ID int `json:"id" validate:"required"` }
ApiUser ==
    Struct(PkgApiV1, <<"User">>,
           << Field(<<"ID">>, TRUE, <<"id">>, <<"required">>, Prim("int")) >>)

\* package m: type Order struct {
\*     Lines []Address `json:"lines"`
\*     At    time.Time `json:"at"`
\*     Owner *User     `json:"-"`
\*     Meta  Labels    `json:"meta"` }
Order ==
    Struct(PkgModel, <<"Order">>,
           << Field(<<"Lines">>, TRUE, <<"lines">>, NoTag, SliceOf(Address)),
              Field(<<"At">>, TRUE, <<"at">>, NoTag, TimeTime),
              Field(<<"Owner">>, TRUE, <<"-">>, NoTag, PtrTo(User)),
              Field(<<"Meta">>, TRUE, <<"meta">>, NoTag, Labels) >>)

\* package m: type Box[T any] struct { Item T `json:"item"` }, instantiated
\* as Box[User]; reflect names the instantiation "Box[m.User]"
Box ==
    Struct(PkgModel, <<"Box", "[", "m", ".", "User", "]">>,
           << Field(<<"Item">>, TRUE, <<"item">>, NoTag, User) >>)

\* package main: type Product struct {
\*     ID          string    `json:"id"`
\*     Name        string    `json:"name" validate:"required"`
\*     Description *string   `json:"description"`
\*     Price       float64   `json:"price" validate:"min=0.01"`
\*     Category    string    `json:"category"`
\*     InStock     bool      `json:"inStock"`
\*     CreatedAt   time.Time `json:"createdAt"` }
Product ==
    Struct(<<"main">>, <<"Product">>,
           << Field(<<"ID">>, TRUE, <<"id">>, NoTag, Prim("string")),
              Field(<<"Name">>, TRUE, <<"name">>, <<"required">>, Prim("string")),
              Field(<<"Description">>, TRUE, <<"description">>, NoTag, PtrTo(Prim("string"))),
              Field(<<"Price">>, TRUE, <<"price">>, <<"min", "=", "0", ".", "0", "1">>,
                    Prim("float64")),
              Field(<<"Category">>, TRUE, <<"category">>, NoTag, Prim("string")),
              Field(<<"InStock">>, TRUE, <<"inStock">>, NoTag, Prim("bool")),
              Field(<<"CreatedAt">>, TRUE, <<"createdAt">>, NoTag, TimeTime) >>)

\* package main: type UserProfile struct {
\*     ID       string   `json:"id"`
\*     Roles    []string `json:"roles"`
\*     IsActive bool     `json:"isActive"` }
UserProfile ==
    Struct(<<"main">>, <<"UserProfile">>,
           << Field(<<"ID">>, TRUE, <<"id">>, NoTag, Prim("string")),
              Field(<<"Roles">>, TRUE, <<"roles">>, NoTag, SliceOf(Prim("string"))),
              Field(<<"IsActive">>, TRUE, <<"isActive">>, NoTag, Prim("bool")) >>)

\* package m: type Rename struct {
\*     Old   string   `json:"old" validate:"min=2,max=5"`
\*     New   *string  `json:"new" validate:"min=2,max=5"`
\*     Seats int      `json:"seats" validate:"min=1"`
\*     Spare *int     `json:"spare" validate:"min=1"`
\*     Tags  []string `json:"tags" validate:"min=1"`
\*     Home  Address  `json:"home"`
\*     Work  *Address `json:"work"` }
Rename ==
    Struct(PkgModel, <<"Rename">>,
           << Field(<<"Old">>, TRUE, <<"old">>,
                    <<"min", "=", "2", ",", "max", "=", "5">>, Prim("string")),
              Field(<<"New">>, TRUE, <<"new">>,
                    <<"min", "=", "2", ",", "max", "=", "5">>, PtrTo(Prim("string"))),
              Field(<<"Seats">>, TRUE, <<"seats">>, <<"min", "=", "1">>, Prim("int")),
              Field(<<"Spare">>, TRUE, <<"spare">>, <<"min", "=", "1">>, PtrTo(Prim("int"))),
              Field(<<"Tags">>, TRUE, <<"tags">>, <<"min", "=", "1">>, SliceOf(Prim("string"))),
              Field(<<"Home">>, TRUE, <<"home">>, NoTag, Address),
              Field(<<"Work">>, TRUE, <<"work">>, NoTag, PtrTo(Address)) >>)

----------------------------------------------------------------------------
(* Schemas.  A nil pointer, nil map or nil interface is <<>>, a set one is a
   one-element sequence. *)

ZeroSchema ==
    [Type |-> "", Ref |-> <<>>, Format |-> "", Description |-> <<>>,
     Items |-> <<>>, Properties |-> <<>>, Example |-> <<>>, Required |-> <<>>,
     MinLength |-> <<>>, MaxLength |-> <<>>, Minimum |-> <<>>, TypeName |-> <<>>]

RefPrefix == <<"#", "/", "components", "/", "schemas", "/">>

TimeExample == "2025-02-22T08:36:06.224266+01:00"

\* example values (interface{}): a tagged tree
Scalar(kind, val) == [kind |-> kind, val |-> val, kids |-> <<>>]

ExObject(m) == [kind |-> "object", val |-> "", kids |-> m]

ExArray(elems) == [kind |-> "array", val |-> "", kids |-> elems]

HasPrefix(s, prefix) ==
    /\ Len(s) >= Len(prefix)
    /\ SubSeq(s, 1, Len(prefix)) = prefix

TrimPrefix(s, prefix) ==
    IF HasPrefix(s, prefix) THEN SubSeq(s, Len(prefix) + 1, Len(s)) ELSE s

\* strings.Index(s, sep) for a one-character sep; 0 when absent
Index(s, sep) ==
    IF \E i \in 1..Len(s) : s[i] = sep
    THEN CHOOSE i \in 1..Len(s) : s[i] = sep /\ \A j \in 1..(i - 1) : s[j] # sep
    ELSE 0

RECURSIVE Split(_, _)
Split(s, sep) ==
    LET i == Index(s, sep) IN
    IF i = 0 THEN <<s>>
    ELSE <<SubSeq(s, 1, i - 1)>> \o Split(SubSeq(s, i + 1, Len(s)), sep)

Numerals == [d \in {"0", "1", "2", "3", "4", "5", "6", "7", "8", "9"} |->
                CASE d = "0" -> 0 [] d = "1" -> 1 [] d = "2" -> 2 [] d = "3" -> 3
                  [] d = "4" -> 4 [] d = "5" -> 5 [] d = "6" -> 6 [] d = "7" -> 7
                  [] d = "8" -> 8 [] d = "9" -> 9]

RECURSIVE DigitsValue(_)
DigitsValue(s) ==
    IF Len(s) = 0 THEN 0
    ELSE 10 * DigitsValue(SubSeq(s, 1, Len(s) - 1)) + Numerals[s[Len(s)]]

\* strconv.Atoi: an optional sign and decimal digits, one digit per element
Atoi(s) ==
    LET body == IF Len(s) > 0 /\ s[1] \in {"-", "+"} THEN Tail(s) ELSE s IN
    IF Len(body) > 0 /\ \A i \in 1..Len(body) : body[i] \in DOMAIN Numerals
    THEN [ok |-> TRUE,
          val |-> IF Len(s) > 0 /\ s[1] = "-" THEN 0 - DigitsValue(body) ELSE DigitsValue(body)]
    ELSE [ok |-> FALSE, val |-> 0]

IsString(t) == t.Kind = "string"

NoRules == [required |-> FALSE, minLen |-> <<>>, maxLen |-> <<>>, min |-> <<>>]

RECURSIVE ApplyRules(_, _, _)
ApplyRules(rules, field, acc) ==
    IF rules = <<>> THEN acc
    ELSE
      LET rule == Head(rules) IN
      IF rule = <<"required">>
      THEN ApplyRules(Tail(rules), field, [acc EXCEPT !.required = TRUE])
      ELSE
        LET a1 == IF HasPrefix(rule, <<"min", "=">>)
                  THEN LET v == Atoi(TrimPrefix(rule, <<"min", "=">>)) IN
                       IF v.ok
                       THEN IF IsString(field.Type)
                            THEN [acc EXCEPT !.minLen = <<v.val>>]
                            ELSE [acc EXCEPT !.min = <<v.val>>]
                       ELSE acc
                  ELSE acc
            a2 == IF HasPrefix(rule, <<"max", "=">>)
                  THEN LET v == Atoi(TrimPrefix(rule, <<"max", "=">>)) IN
                       IF v.ok /\ IsString(field.Type)
                       THEN [a1 EXCEPT !.maxLen = <<v.val>>]
                       ELSE a1
                  ELSE a1
        IN ApplyRules(Tail(rules), field, a2)

getValidationRules(field) ==
    IF field.Validate = <<>> THEN NoRules
    ELSE ApplyRules(Split(field.Validate, ","), field, NoRules)

\* the serialized name of a member: the json tag up to its first comma,
\* the member's own name when that is empty
\* mutation: the json tag is ignored
JsonName_FieldName(field) == field.Name

JsonName(field) ==
    LET tag == field.Json
        idx == Index(tag, ",")
        name == IF idx # 0 THEN SubSeq(tag, 1, idx - 1) ELSE tag
    IN  IF name = <<>> THEN field.Name ELSE name

Skipped(field) ==
    \/ ~field.Exported
    \/ LET tag == field.Json
           idx == Index(tag, ",")
       IN (IF idx # 0 THEN SubSeq(tag, 1, idx - 1) ELSE tag) = <<"-">>

IntKinds == {"int", "int8", "int16", "int32", "int64",
             "uint", "uint8", "uint16", "uint32", "uint64"}

getGoTypeSchema(t) ==
    CASE t.Kind = "bool" -> "boolean"
      [] t.Kind \in IntKinds -> "integer"
      [] t.Kind \in {"float32", "float64"} -> "number"
      [] t.Kind = "string" -> "string"
      [] OTHER -> "object"

getExampleValue(t) ==
    CASE t.Kind = "bool" -> <<Scalar("bool", "true")>>
      [] t.Kind \in IntKinds -> <<Scalar("int", "42")>>
      [] t.Kind \in {"float32", "float64"} -> <<Scalar("float", "3.14")>>
      [] t.Kind = "string" -> <<Scalar("string", "example")>>
      [] OTHER -> <<>>

\* t.String() == "time.Time"
IsTimeTime(t) == t.Kind = "struct" /\ t.PkgPath = <<"time">> /\ t.Name = <<"Time">>

RECURSIVE generateExample(_)
RECURSIVE ExampleFields(_, _)
ExampleFields(fields, example) ==
    IF fields = <<>> THEN example
    ELSE
      LET field == Head(fields) IN
      IF Skipped(field) THEN ExampleFields(Tail(fields), example)
      ELSE
        Only({ExampleFields(Tail(fields), next) :
              next \in {IF value # <<>>
                        THEN MapSet(example, JsonName(field), value[1])
                        ELSE example :
                        value \in {
              CASE field.Type.Kind = "struct" ->
                     IF IsTimeTime(field.Type)
                     THEN <<Scalar("string", TimeExample)>>
                     ELSE generateExample(field.Type)
                [] field.Type.Kind \in {"slice", "array"} ->
                     Only({IF elemExample # <<>> THEN <<ExArray(elemExample)>> ELSE <<>> :
                           elemExample \in {generateExample(field.Type.Elem[1])}})
                [] OTHER -> getExampleValue(field.Type)}}})

generateExample(t) ==
    IF t.Kind # "struct" THEN <<>>
    ELSE <<ExObject(ExampleFields(t.Fields, EmptyMap))>>

\* mutation: the reference names the display name as it is, unsanitized
ArrayItemRef_Unsanitized(itemSchema) ==
    [ZeroSchema EXCEPT !.Ref = RefPrefix \o itemSchema.TypeName]

\* spec.go:258-260  the items of an array of composites
ArrayItemRef(itemSchema) ==
    [ZeroSchema EXCEPT !.Ref = RefPrefix \o SanitizeSchemaName(itemSchema.TypeName)]

\* SchemaFromType and getStructProperties thread the registry r through the
\* recursion: RegisterType is called for a struct after its members were built.
RECURSIVE SchemaFromType(_, _)
RECURSIVE StructProperties(_, _, _)
StructProperties(r, fields, acc) ==
    IF fields = <<>> THEN [r |-> r, properties |-> acc.properties, required |-> acc.required]
    ELSE
      LET field == Head(fields) IN
      IF Skipped(field) THEN StructProperties(r, Tail(fields), acc)
      ELSE
        LET name == JsonName(field) IN
        Only({
          LET schema == [b.s EXCEPT !.MinLength = rules.minLen,
                                    !.MaxLength = rules.maxLen,
                                    !.Minimum = rules.min]
          IN Only({StructProperties(b.r, Tail(fields), next) :
                   next \in {[properties |-> MapSet(acc.properties, name, schema),
                              required |-> IF rules.required
                                           THEN Append(acc.required, name)
                                           ELSE acc.required]}}) :
          rules \in {getValidationRules(field)},
          b \in {SchemaFromType(r, field.Type)}})

getStructProperties(r, t) ==
    StructProperties(r, t.Fields, [properties |-> EmptyMap, required |-> <<>>])

SchemaFromType(r, t) ==
    IF IsTimeTime(t)
    THEN [r |-> r,
          s |-> [ZeroSchema EXCEPT !.Type = "string", !.Format = "date-time",
                                   !.Example = <<Scalar("string", TimeExample)>>,
                                   !.TypeName = <<"time", ".", "Time">>]]
    ELSE CASE t.Kind = "ptr" -> SchemaFromType(r, t.Elem[1])
           [] t.Kind = "struct" ->
                Only({
                  Only({[r |-> reg.r,
                         s |-> [ZeroSchema EXCEPT !.Type = "object",
                                                  !.Properties = <<p.properties>>,
                                                  !.TypeName = reg.l.ret,
                                                  !.Required = p.required,
                                                  !.Example = generateExample(t)]] :
                        reg \in {RegisterType(p.r, [PkgPath |-> t.PkgPath,
                                                    Name |-> t.Name])}}) :
                  p \in {getStructProperties(r, t)}})
           [] t.Kind \in {"slice", "array"} ->
                Only({
                  LET itemSchema == b.s IN
                  IF itemSchema.Type = "object" /\ itemSchema.TypeName # <<>>
                  THEN [r |-> b.r,
                        s |-> [ZeroSchema EXCEPT
                                 !.Type = "array",
                                 !.Items = <<ArrayItemRef(itemSchema)>>,
                                 !.TypeName = <<"[", "]">> \o itemSchema.TypeName]]
                  ELSE [r |-> b.r,
                        s |-> [ZeroSchema EXCEPT
                                 !.Type = "array",
                                 !.Items = <<itemSchema>>,
                                 !.TypeName = <<"[", "]">> \o itemSchema.TypeName]] :
                  b \in {SchemaFromType(r, t.Elem[1])}})
           [] OTHER ->
                [r |-> r,
                 s |-> [ZeroSchema EXCEPT !.Type = getGoTypeSchema(t),
                                          !.TypeName = t.Name,
                                          !.Example = getExampleValue(t)]]

----------------------------------------------------------------------------
(* Route metadata and the route options that build it *)

Digits == <<"0", "1", "2", "3", "4", "5", "6", "7", "8", "9">>

\* strconv.Itoa, one digit per element
RECURSIVE Itoa(_)
Itoa(n) ==
    IF n < 0 THEN <<"-">> \o Itoa(0 - n)
    ELSE IF n < 10 THEN <<Digits[n + 1]>>
    ELSE Itoa(n \div 10) \o <<Digits[(n % 10) + 1]>>

ContentJSON == "application/json"

MetaMediaType(schema) == [Schema |-> schema, Example |-> <<>>]

MetaResponse(description, content) ==
    [Description |-> description, Content |-> content, Headers |-> <<>>]

\* router.go:341-348  the metadata a route starts with
NewRouteMetadata(method, path) ==
    [Method |-> method, Path |-> path, OperationID |-> "", Tags |-> <<>>,
     Parameters |-> <<>>, RequestBody |-> <<>>, Responses |-> EmptyMap,
     Security |-> <<>>, Deprecated |-> FALSE]

WithOperationID(id) == [op |-> "WithOperationID", id |-> id]
WithEmptyResponse(code) == [op |-> "WithEmptyResponse", code |-> code]
WithResponseType(code, t) == [op |-> "WithResponseType", code |-> code, t |-> t]
WithResponseExample(code, t) == [op |-> "WithResponseExample", code |-> code, t |-> t]
WithRequestBody(t) == [op |-> "WithRequestBody", t |-> t]
WithTags(tags) == [op |-> "WithTags", tags |-> tags]
WithSecurity(requirements) == [op |-> "WithSecurity", requirements |-> requirements]

\* options.go:279-282  the requirement is copied key by key
CopyRequirement(req) == [k \in DOMAIN req |-> req[k]]

RECURSIVE CopyRequirements(_)
CopyRequirements(requirements) ==
    IF requirements = <<>> THEN <<>>
    ELSE <<CopyRequirement(Head(requirements))>> \o CopyRequirements(Tail(requirements))

\* the example a caller hands to WithResponseExample
GivenExample == Scalar("given", "example")

\* one RouteOption applied to metadata m, registry r
ApplyOption(r, m, o) ==
    CASE o.op = "WithOperationID" ->
           [r |-> r, m |-> [m EXCEPT !.OperationID = o.id]]
      [] o.op = "WithTags" ->
           [r |-> r, m |-> [m EXCEPT !.Tags = m.Tags \o o.tags]]
      [] o.op = "WithSecurity" ->
           [r |-> r, m |-> [m EXCEPT !.Security =
                                m.Security \o CopyRequirements(o.requirements)]]
      [] o.op = "WithEmptyResponse" ->
           [r |-> r,
            m |-> [m EXCEPT !.Responses =
                     MapSet(m.Responses, Itoa(o.code), MetaResponse("", <<>>))]]
      [] o.op = "WithResponseType" ->
           IF o.t.Kind \in {"slice", "array"}
           THEN Only({
                [r |-> b.r,
                 m |-> [m EXCEPT !.Responses =
                          MapSet(m.Responses, Itoa(o.code),
                                 MetaResponse("", <<MapSet(EmptyMap, ContentJSON,
                                     MetaMediaType([ZeroSchema EXCEPT !.Type = "array",
                                                                      !.Items = <<b.s>>]))>>))]] :
                b \in {SchemaFromType(r, o.t.Elem[1])}})
           ELSE Only({
                [r |-> b.r,
                 m |-> [m EXCEPT !.Responses =
                          MapSet(m.Responses, Itoa(o.code),
                                 MetaResponse("", <<MapSet(EmptyMap, ContentJSON,
                                     MetaMediaType(b.s))>>))]] :
                b \in {SchemaFromType(r, o.t)}})
      [] o.op = "WithResponseExample" ->
           Only({
           [r |-> b.r,
            m |-> [m EXCEPT !.Responses =
                     MapSet(m.Responses, Itoa(o.code),
                            MetaResponse("", <<MapSet(EmptyMap, ContentJSON,
                                MetaMediaType([b.s EXCEPT !.Example = <<GivenExample>>]))>>))]] :
           b \in {SchemaFromType(r, o.t)}})
      [] o.op = "WithRequestBody" ->
           Only({
           [r |-> b.r,
            m |-> [m EXCEPT !.RequestBody =
                     <<[Description |-> "", Required |-> TRUE,
                        Content |-> MapSet(EmptyMap, ContentJSON, MetaMediaType(b.s))]>>]] :
           b \in {SchemaFromType(r, o.t)}})

RECURSIVE ApplyOptions(_, _, _)
ApplyOptions(r, m, opts) ==
    IF opts = <<>> THEN [r |-> r, m |-> m]
    ELSE Only({ApplyOptions(a.r, a.m, Tail(opts)) : a \in {ApplyOption(r, m, Head(opts))}})

----------------------------------------------------------------------------
(* Conversion of metadata values to document values *)

RECURSIVE SchemaFromMetadataSchema(_)
SchemaFromMetadataSchema(s) ==
    [Type |-> s.Type, Ref |-> s.Ref, Format |-> s.Format, Description |-> s.Description,
     Example |-> s.Example, Required |-> s.Required,
     MinLength |-> s.MinLength, MaxLength |-> s.MaxLength, Minimum |-> s.Minimum,
     TypeName |-> s.TypeName,
     Properties |-> IF s.Properties = <<>> THEN <<>>
                    ELSE <<[k \in DOMAIN s.Properties[1] |->
                              SchemaFromMetadataSchema(s.Properties[1][k])]>>,
     Items |-> IF s.Items = <<>> THEN <<>>
               ELSE <<SchemaFromMetadataSchema(s.Items[1])>>]

MediaType(schema, example, schemaRef) ==
    [Schema |-> schema, Example |-> example, SchemaRef |-> schemaRef]

\* mutation: the reference is set on the inline element, which keeps its fields
ItemsComponentRef_Inline(items) ==
    [items EXCEPT !.Ref = RefPrefix \o SanitizeSchemaName(items.TypeName)]

\* the element of an array of objects that should be referenced
ItemsComponentRef(items) ==
    [ZeroSchema EXCEPT !.Ref = RefPrefix \o SanitizeSchemaName(items.TypeName)]

\* the content entry a response gets for media type value v
ResponseContent(v) ==
    Only({
    IF schema.Type = "array" /\ schema.Items # <<>>
    THEN IF schema.Items[1].Ref # <<>>
         THEN MediaType([ZeroSchema EXCEPT !.Type = "array", !.Items = schema.Items],
                        <<>>, <<>>)
         ELSE IF schema.Items[1].Type = "object" /\ schema.Items[1].TypeName # <<>>
         THEN MediaType([ZeroSchema EXCEPT !.Type = "array",
                            !.Items = <<ItemsComponentRef(schema.Items[1])>>],
                        <<>>, <<>>)
         ELSE MediaType(schema, <<>>, <<>>)
    ELSE IF schema.Ref # <<>>
         THEN MediaType(ZeroSchema, <<>>, <<[Ref |-> schema.Ref]>>)
         ELSE MediaType(schema, v.Example, <<>>) :
    schema \in {SchemaFromMetadataSchema(v.Schema)}})

ResponseFromMetadataResponse(resp) ==
    [Description |-> resp.Description,
     Content |-> IF resp.Content = <<>> THEN EmptyMap
                 ELSE [k \in DOMAIN resp.Content[1] |-> ResponseContent(resp.Content[1][k])],
     Headers |-> EmptyMap]

\* the content entry a request body gets for media type value v
RequestBodyContent(v) ==
    Only({
    IF schema.Type = "array" /\ schema.Items # <<>>
    THEN IF schema.Items[1].Ref # <<>>
         THEN MediaType([ZeroSchema EXCEPT !.Type = "array",
                            !.Items = <<[ZeroSchema EXCEPT !.Ref = schema.Items[1].Ref]>>],
                        <<>>, <<>>)
         ELSE IF schema.Items[1].Type = "object" /\ schema.Items[1].TypeName # <<>>
         THEN MediaType([ZeroSchema EXCEPT !.Type = "array",
                            !.Items = <<ItemsComponentRef(schema.Items[1])>>],
                        <<>>, <<>>)
         ELSE MediaType(schema, <<>>, <<>>)
    ELSE IF schema.Ref # <<>>
         THEN MediaType(ZeroSchema, <<>>, <<[Ref |-> schema.Ref]>>)
         ELSE MediaType(schema, v.Example, <<>>) :
    schema \in {SchemaFromMetadataSchema(v.Schema)}})

RequestBodyFromMetadataRequestBody(rb) ==
    IF rb = <<>> THEN <<>>
    ELSE <<[Description |-> rb[1].Description, Required |-> rb[1].Required,
            Content |-> [k \in DOMAIN rb[1].Content |-> RequestBodyContent(rb[1].Content[k])]]>>

ParameterFromMetadataParameter(p) ==
    [Name |-> p.Name, In |-> p.In, Required |-> p.Required,
     Schema |-> SchemaFromMetadataSchema(p.Schema)]

----------------------------------------------------------------------------
(* The schema collector.  Go iterates a map in an unspecified order, so the
   collector is computed for every order: it maps a set of possible component
   tables to the set of possible component tables. *)

RECURSIVE Perms(_)
Perms(S) ==
    IF S = {} THEN {<<>>}
    ELSE UNION {{<<x>> \o p : p \in Perms(S \ {x})} : x \in S}

generateSchemaName(schema) ==
    IF schema.TypeName # <<>>
    THEN IF HasPrefix(schema.TypeName, <<"[", "]">>)
         THEN TrimPrefix(schema.TypeName, <<"[", "]">>)
         ELSE schema.TypeName
    ELSE <<>>

\* generator.go:521  the nodes the collector registers
IsComponent(schema) == schema.Type = "object" /\ schema.Properties # <<>>

RECURSIVE collectSchemaComponents(_, _)
RECURSIVE CollectProperties(_, _, _)
CollectProperties(tables, props, order) ==
    IF order = <<>> THEN tables
    ELSE Only({CollectProperties(t1, props, Tail(order)) :
               t1 \in {collectSchemaComponents(tables, props[Head(order)])}})

collectSchemaComponents(tables, schema) ==
    Only({IF schema.Items # <<>>
          THEN collectSchemaComponents(t1, schema.Items[1])
          ELSE t1 :
          t1 \in {IF IsComponent(schema)
                  THEN UNION {CollectProperties(t0, schema.Properties[1], order) :
                                order \in Perms(DOMAIN schema.Properties[1]),
                                t0 \in {LET name == generateSchemaName(schema) IN
                                        IF name # <<>>
                                        THEN {MapSet(g, name, schema) : g \in tables}
                                        ELSE tables}}
                  ELSE tables}})

RECURSIVE CollectContent(_, _, _)
CollectContent(tables, content, order) ==
    IF order = <<>> THEN tables
    ELSE Only({CollectContent(t1, content, Tail(order)) :
               t1 \in {collectSchemaComponents(tables,
                          SchemaFromMetadataSchema(content[Head(order)].Schema))}})

CollectContentAnyOrder(tables, content) ==
    UNION {CollectContent(t0, content, order) :
             order \in Perms(DOMAIN content), t0 \in {tables}}

RECURSIVE CollectResponses(_, _, _)
CollectResponses(tables, responses, order) ==
    IF order = <<>> THEN tables
    ELSE LET response == responses[Head(order)] IN
         Only({CollectResponses(t1, responses, Tail(order)) :
               t1 \in {IF response.Content # <<>>
                       THEN CollectContentAnyOrder(tables, response.Content[1])
                       ELSE tables}})

\* generator.go:495-515  the body of the loop over routes
CollectRoute(tables, route) ==
    UNION {CollectResponses(t1, route.Responses, order) :
             order \in Perms(DOMAIN route.Responses),
             t1 \in {IF route.RequestBody # <<>>
                     THEN CollectContentAnyOrder(tables, route.RequestBody[1].Content)
                     ELSE tables}}

RECURSIVE collectSchemas(_, _)
collectSchemas(tables, routeInfo) ==
    IF routeInfo = <<>> THEN tables
    ELSE Only({collectSchemas(t1, Tail(routeInfo)) :
               t1 \in {CollectRoute(tables, Head(routeInfo))}})

----------------------------------------------------------------------------
(* Document assembly *)

SelfPath == "/openapi.json"

\* part_005:78-89  a PathItem with no operation
ZeroPathItem ==
    [Get |-> <<>>, Post |-> <<>>, Put |-> <<>>, Delete |-> <<>>, Patch |-> <<>>,
     Options |-> <<>>, Head |-> <<>>, Trace |-> <<>>]

\* generator.go:797-835
BuildOperation(route) ==
    [OperationID |-> route.OperationID,
     Tags |-> route.Tags,
     Parameters |-> [i \in 1..Len(route.Parameters) |->
                       ParameterFromMetadataParameter(route.Parameters[i])],
     RequestBody |-> RequestBodyFromMetadataRequestBody(route.RequestBody),
     Responses |-> [c \in DOMAIN route.Responses |->
                      ResponseFromMetadataResponse(route.Responses[c])],
     Security |-> route.Security,
     Deprecated |-> route.Deprecated]

\* generator.go:837-848
SetMethod(pathItem, method, operation) ==
    CASE method = "GET" -> [pathItem EXCEPT !.Get = <<operation>>]
      [] method = "POST" -> [pathItem EXCEPT !.Post = <<operation>>]
      [] method = "PUT" -> [pathItem EXCEPT !.Put = <<operation>>]
      [] method = "DELETE" -> [pathItem EXCEPT !.Delete = <<operation>>]
      [] method = "PATCH" -> [pathItem EXCEPT !.Patch = <<operation>>]
      [] OTHER -> pathItem

\* mutation: every route starts from an empty path item
PathItemFor_Fresh(paths, path) == ZeroPathItem

\* generator.go:792-795
PathItemFor(paths, path) ==
    IF path \in DOMAIN paths THEN paths[path] ELSE ZeroPathItem

\* generator.go:791-851
RECURSIVE AssemblePaths(_, _)
AssemblePaths(paths, rs) ==
    IF rs = <<>> THEN paths
    ELSE LET route == Head(rs)
             pathItem == PathItemFor(paths, route.Path)
         IN Only({AssemblePaths(next, Tail(rs)) :
                  next \in {MapSet(paths, route.Path,
                               SetMethod(pathItem, route.Method, BuildOperation(route)))}})

\* mutation: the path table is returned as assembled
RemoveSelfPath_Keep(paths) == paths

\* generator.go:853
RemoveSelfPath(paths) == MapDelete(paths, SelfPath)

----------------------------------------------------------------------------
(* The router's routes and the generator *)

\* the routes the program registers: method, path and route options
RouteKinds ==
    { [Method |-> "GET", Path |-> "/users",
       Opts |-> <<WithOperationID("listUsers"), WithResponseExample(200, SliceOf(User))>>],
      [Method |-> "POST", Path |-> "/users",
       Opts |-> <<WithOperationID("createUser"), WithRequestBody(User),
                  WithResponseType(201, User), WithEmptyResponse(404)>>],
      [Method |-> "GET", Path |-> "/users",
       Opts |-> <<WithOperationID("listApiUsers"), WithResponseType(200, SliceOf(ApiUser))>>],
      [Method |-> "GET", Path |-> SelfPath,
       Opts |-> <<WithOperationID("order"), WithResponseType(200, Order)>>],
      [Method |-> "HEAD", Path |-> "/users",
       Opts |-> <<WithOperationID("labels"), WithResponseType(200, SliceOf(Labels))>>],
      [Method |-> "PUT", Path |-> "/boxes",
       Opts |-> <<WithOperationID("putBoxes"), WithRequestBody(SliceOf(Box)),
                  WithResponseType(200, Box)>>] }

\* generator.go:376-384  NewGenerator, router.go:268-277  New
InitGen ==
    /\ types = EmptyMap
    /\ entries = <<>>
    /\ mu = "free"
    /\ pc = [p \in Procs |-> "idle"]
    /\ loc = [p \in Procs |-> NoLocals]
    /\ calls = 0
    /\ log = <<>>
    /\ lin = [types |-> EmptyMap, entries |-> <<>>]
    /\ routes = <<>>
    /\ routeOpts = <<>>
    /\ schemas = EmptyMap
    /\ spec = [Paths |-> EmptyMap, Schemas |-> EmptyMap]
    /\ specSel = <<>>
    /\ gens = 0
    /\ build = NoBuild
    /\ call = NoCall
    /\ routers = <<>>
    /\ mux = EmptyMap
    /\ now = 0
    /\ served = <<>>
    /\ specURL = ""

\* router.go:331-377  Router.Handle: build the metadata, apply the options,
\* append the route
Handle(k) ==
    /\ Len(routes) < MaxRoutes
    /\ \E a \in {ApplyOptions(Reg, NewRouteMetadata(k.Method, k.Path), k.Opts)} :
        /\ types' = a.r.types
        /\ entries' = a.r.entries
        /\ routes' = Append(routes, a.m)
        /\ routeOpts' = Append(routeOpts, k.Opts)
    /\ UNCHANGED <<mu, pc, loc, calls, log, lin, schemas, spec, specSel, gens>>

IsAscending(sel) == \A i \in 1..(Len(sel) - 1) : sel[i] < sel[i + 1]

\* the non-empty sub-lists of a list of n elements, as ascending positions
SubLists(n) ==
    {sel \in UNION {[1..m -> 1..n] : m \in 1..n} : IsAscending(sel)}

RoutesAt(sel) == [k \in 1..Len(sel) |-> routes[sel[k]]]

\* generator.go:773-856  Generator.Generate(routes)
Generate(sel) ==
    /\ gens < MaxGenerates
    /\ gens' = gens + 1
    /\ \E rs \in {RoutesAt(sel)} :
       \E table \in collectSchemas({schemas}, rs) :
          /\ schemas' = table
          /\ spec' = [Paths |-> RemoveSelfPath(AssemblePaths(EmptyMap, rs)),
                      Schemas |-> table]
          /\ specSel' = sel
    /\ UNCHANGED <<regVars, routes, routeOpts>>

NextGen ==
    /\ \/ \E k \in RouteKinds : Handle(k)
       \/ \E sel \in SubLists(Len(routes)) : Generate(sel)
    /\ UNCHANGED <<fnVars, rtVars, uiVars>>

SpecGen == InitGen /\ [][NextGen]_vars

\* routes that document one type twice: once with an example the caller
\* gives and once without
ExampleKinds ==
    { [Method |-> "POST", Path |-> "/users",
       Opts |-> <<WithOperationID("createUser"), WithResponseExample(200, User),
                  WithResponseType(201, User)>>],
      [Method |-> "GET", Path |-> "/users",
       Opts |-> <<WithOperationID("getUser"), WithResponseType(200, User)>>],
      [Method |-> "GET", Path |-> "/orders",
       Opts |-> <<WithOperationID("getOrder"), WithResponseExample(200, Order)>>] }

NextExample ==
    /\ \/ \E k \in ExampleKinds : Handle(k)
       \/ \E sel \in SubLists(Len(routes)) : Generate(sel)
    /\ UNCHANGED <<fnVars, rtVars, uiVars>>

SpecExample == InitGen /\ [][NextExample]_vars

\* the paths a program serves its document and its UI at
SpecPaths == {SelfPath, "/api/openapi.json"}

UIPath == "/docs"

\* part_016:55-64  SwaggerUIIntegration.SetupRoutes: two GET routes without
\* options, registered as Router.Handle registers them
SetupRoutes(specPath, uiPath) ==
    /\ specURL = ""
    /\ routes' = routes \o <<ApplyOptions(Reg, NewRouteMetadata("GET", specPath), <<>>).m,
                              ApplyOptions(Reg, NewRouteMetadata("GET", uiPath), <<>>).m>>
    /\ routeOpts' = routeOpts \o <<(<<>>), (<<>>)>>
    /\ specURL' = specPath
    /\ UNCHANGED <<regVars, schemas, spec, specSel, gens>>

\* part_014:24-42  the handler of the document route: the document is
\* generated from every route of the router
GenerateOpenAPISpec ==
    /\ specURL # ""
    /\ Generate([i \in 1..Len(routes) |-> i])
    /\ UNCHANGED uiVars

\* the routes of a program that serves its own document
SetupKinds == {k \in RouteKinds : k.Path # SelfPath}

NextSetup ==
    /\ \/ (\E k \in SetupKinds : Handle(k)) /\ UNCHANGED uiVars
       \/ \E specPath \in SpecPaths : SetupRoutes(specPath, UIPath)
       \/ GenerateOpenAPISpec
    /\ UNCHANGED <<fnVars, rtVars>>

SpecSetup == InitGen /\ [][NextSetup]_vars

----------------------------------------------------------------------------
(* Generate of the RouteMetadata version of the generator (generator.go:281-354),
   fed by Router.collectRoutesRecursively (router.go:195-210), which copies each
   RouteMetadata struct: the copies share the Responses map, every Content map
   and the RequestBody with the router's own metadata. *)

\* generator.go:96-112
RECURSIVE convertSchemaToRef(_, _)
convertSchemaToRef(g, schema) ==
    IF /\ schema.Type = "object"
       /\ schema.Properties # <<>>
       /\ generateSchemaName(schema) # <<>>
       /\ generateSchemaName(schema) \in DOMAIN g
       /\ g[generateSchemaName(schema)].Properties # <<>>
    THEN [ZeroSchema EXCEPT !.Ref = RefPrefix \o generateSchemaName(schema)]
    ELSE IF schema.Items # <<>> /\ schema.Type = "array"
         THEN [schema EXCEPT !.Items = <<convertSchemaToRef(g, schema.Items[1])>>]
         ELSE schema

\* generator.go:302-305, 312-315  every entry of a content map is overwritten
ConvertContent(g, content) ==
    [contentType \in DOMAIN content |->
        MetaMediaType(convertSchemaToRef(g, content[contentType].Schema))]

\* generator.go:299-322  what the loop body leaves in the route's maps
ConvertRoute(g, route) ==
    [route EXCEPT
       !.RequestBody = IF @ = <<>> THEN <<>>
                       ELSE <<[@[1] EXCEPT !.Content = ConvertContent(g, @)]>>,
       !.Responses = [statusCode \in DOMAIN @ |->
                        IF @[statusCode].Content = <<>> THEN @[statusCode]
                        ELSE [@[statusCode] EXCEPT
                                !.Content = <<ConvertContent(g, @[1])>>]]]

\* generator.go:324-333  the operation holds the route's own body and responses
OperationInPlace(route) ==
    [OperationID |-> route.OperationID,
     Tags |-> route.Tags,
     Parameters |-> route.Parameters,
     RequestBody |-> route.RequestBody,
     Responses |-> route.Responses,
     Security |-> route.Security]

\* generator.go:293-349
RECURSIVE AssembleInPlace(_, _)
AssembleInPlace(paths, rs) ==
    IF rs = <<>> THEN paths
    ELSE LET route == Head(rs)
             pathItem == PathItemFor(paths, route.Path)
         IN Only({AssembleInPlace(next, Tail(rs)) :
                  next \in {MapSet(paths, route.Path,
                               SetMethod(pathItem, route.Method,
                                         OperationInPlace(route)))}})

\* generator.go:281-354  Generator.Generate(routes []RouteMetadata)
GenerateInPlace(sel) ==
    /\ gens < MaxGenerates
    /\ gens' = gens + 1
    /\ \E rs \in {RoutesAt(sel)} :
       \E table \in collectSchemas({schemas}, rs) :
       \E converted \in {[k \in 1..Len(rs) |-> ConvertRoute(table, rs[k])]} :
          /\ schemas' = table
          /\ routes' = [i \in 1..Len(routes) |->
                          IF \E k \in 1..Len(sel) : sel[k] = i
                          THEN converted[CHOOSE k \in 1..Len(sel) : sel[k] = i]
                          ELSE routes[i]]
          /\ spec' = [Paths |-> RemoveSelfPath(AssembleInPlace(EmptyMap, converted)),
                      Schemas |-> table]
          /\ specSel' = sel
    /\ UNCHANGED <<regVars, routeOpts>>

NextInPlace ==
    /\ \/ \E k \in RouteKinds : Handle(k)
       \/ \E sel \in SubLists(Len(routes)) : GenerateInPlace(sel)
    /\ UNCHANGED <<fnVars, rtVars, uiVars>>

SpecInPlace == InitGen /\ [][NextInPlace]_vars

----------------------------------------------------------------------------
(* SchemaFromType as the calls it makes on itself: a stack of frames, each
   the type being converted and the position of its next call.  A Go type can
   name itself inside a pointer or a slice; reflect then hands back the same
   type, which the descriptor Named stands for. *)

Named(name) ==
    [Kind |-> "named", Name |-> name, PkgPath |-> PkgModel, Elem |-> <<>>, Fields |-> <<>>]

\* package m: type Category struct {
\*     Name     string     `json:"name"`
\*     Children []Category `json:"children"` }
Category ==
    Struct(PkgModel, <<"Category">>,
           << Field(<<"Name">>, TRUE, <<"name">>, NoTag, Prim("string")),
              Field(<<"Children">>, TRUE, <<"children">>, NoTag,
                    SliceOf(Named(<<"Category">>))) >>)

\* a shape the builder has no case for: chan int
Unsupported ==
    [Kind |-> "chan", Name |-> <<>>, PkgPath |-> <<>>, Elem |-> <<Prim("int")>>,
     Fields |-> <<>>]

\* t.Elem(), field.Type
TypeOf(t) == IF t.Kind = "named" THEN Category ELSE t

\* part_005:326-345  the member types getStructProperties converts, in order
RECURSIVE FieldCalls(_)
FieldCalls(fields) ==
    IF fields = <<>> THEN <<>>
    ELSE (IF Skipped(Head(fields)) THEN <<>> ELSE <<TypeOf(Head(fields).Type)>>)
         \o FieldCalls(Tail(fields))

\* part_005:221-277  the types SchemaFromType(t) calls SchemaFromType on
SelfCalls(t) ==
    IF IsTimeTime(t) THEN <<>>
    ELSE CASE t.Kind = "ptr" -> <<TypeOf(t.Elem[1])>>
           [] t.Kind = "struct" -> FieldCalls(t.Fields)
           [] t.Kind \in {"slice", "array"} -> <<TypeOf(t.Elem[1])>>
           [] OTHER -> <<>>

BuildInputs ==
    {User, ApiUser, Order, Box, Labels, Address, TimeTime, Category, Unsupported,
     SliceOf(User), SliceOf(Box), SliceOf(Labels), PtrTo(Order), PtrTo(Category),
     SliceOf(PtrTo(Order)), Prim("string"), Prim("int"), Prim("bool"), Prim("float64"),
     Product, UserProfile, Rename, PtrTo(User), PtrTo(Prim("string"))}

InitBuild == InitGen

\* a caller calls SchemaFromType(t)
StartBuild(t) ==
    /\ build.status = "idle"
    /\ build' = [status |-> "running", input |-> t,
                 stack |-> <<[t |-> t, next |-> 1]>>]
    /\ UNCHANGED <<regVars, genVars, call, rtVars, uiVars>>

\* the running frame calls SchemaFromType on its next type; the runtime ends
\* the program when the stack cannot grow
CallStep ==
    /\ build.status = "running"
    /\ LET top == build.stack[Len(build.stack)] IN
       /\ top.next <= Len(SelfCalls(top.t))
       /\ build' =
             IF Len(build.stack) = MaxStack
             THEN [build EXCEPT !.status = "fatal"]
             ELSE [build EXCEPT
                     !.stack = Append([@ EXCEPT ![Len(@)].next = top.next + 1],
                                      [t |-> SelfCalls(top.t)[top.next], next |-> 1])]
    /\ UNCHANGED <<regVars, genVars, call, rtVars, uiVars>>

\* the running frame made all its calls and returns to its caller
ReturnStep ==
    /\ build.status = "running"
    /\ Len(build.stack) > 1
    /\ LET top == build.stack[Len(build.stack)] IN
       top.next > Len(SelfCalls(top.t))
    /\ build' = [build EXCEPT !.stack = SubSeq(@, 1, Len(@) - 1)]
    /\ UNCHANGED <<regVars, genVars, call, rtVars, uiVars>>

\* the outermost call returns the schema; the registry holds the types met
ReturnSchema ==
    /\ build.status = "running"
    /\ Len(build.stack) = 1
    /\ build.stack[1].next > Len(SelfCalls(build.stack[1].t))
    /\ \E b \in {SchemaFromType(Reg, build.input)} :
          /\ build' = [status |-> "returned", input |-> build.input, stack |-> <<b.s>>]
          /\ types' = b.r.types
          /\ entries' = b.r.entries
    /\ UNCHANGED <<mu, pc, loc, calls, log, lin, genVars, call, rtVars, uiVars>>

NextBuild ==
    \/ \E t \in BuildInputs : StartBuild(t)
    \/ CallStep
    \/ ReturnStep
    \/ ReturnSchema

SpecBuild == InitBuild /\ [][NextBuild]_vars

----------------------------------------------------------------------------
(* The string and path functions, each called on an argument drawn from a
   bounded set of strings (one character per element) or on the result of
   the call before. *)

\* the strings of at most n characters over alphabet A
Strings(A, n) == UNION {[1..m -> A] : m \in 0..n}

\* part_002:7-9
StatusCodeToString(code) == Itoa(code)

\* mutation: the conversion error is dropped
StatusCodeFromString_NoError(code) ==
    [val |-> Atoi(code).val, err |-> FALSE]

\* part_002:13-15  the value and whether an error is returned
StatusCodeFromString(code) ==
    [val |-> Atoi(code).val, err |-> ~Atoi(code).ok]

RECURSIVE Join(_, _)
Join(elems, sep) ==
    IF elems = <<>> THEN <<>>
    ELSE IF Len(elems) = 1 THEN elems[1]
    ELSE elems[1] \o <<sep>> \o Join(Tail(elems), sep)

\* path.Clean, the elements of the path taken left to right: an empty
\* element and "." are dropped, ".." removes the element before it (at the
\* root it is dropped; in a relative path a leading ".." is kept)
RECURSIVE CleanElements(_, _, _)
CleanElements(elems, kept, rooted) ==
    IF elems = <<>> THEN kept
    ELSE LET e == Head(elems) IN
         CleanElements(Tail(elems),
            CASE e = <<>> \/ e = <<".">> -> kept
              [] e = <<".", ".">> ->
                   IF kept # <<>> /\ kept[Len(kept)] # <<".", ".">>
                   THEN SubSeq(kept, 1, Len(kept) - 1)
                   ELSE IF rooted THEN kept ELSE Append(kept, e)
              [] OTHER -> Append(kept, e),
            rooted)

Clean(p) ==
    LET rooted == p # <<>> /\ p[1] = "/"
        kept == CleanElements(Split(p, "/"), <<>>, rooted)
    IN IF rooted THEN <<"/">> \o Join(kept, "/")
       ELSE IF kept = <<>> THEN <<".">> ELSE Join(kept, "/")

\* mutation: the path is not cleaned
normalizePath_NoClean(p) ==
    IF p = <<>> THEN <<"/">>
    ELSE IF p[1] # "/" THEN <<"/">> \o p ELSE p

\* router.go:456-466
normalizePath(p) ==
    IF p = <<>> THEN <<"/">>
    ELSE Clean(IF p[1] # "/" THEN <<"/">> \o p ELSE p)

CodeStrings == Strings({"4", "0", "a", "-", "+", " "}, MaxLen)

NameStrings == Strings({"a", ".", "/", "-", "_"}, MaxLen)

PathStrings == Strings({"a", "/", "."}, MaxPathLen)

InitFn == InitGen

CallStatusCodeToString(code) ==
    /\ call.fn = ""
    /\ call' = [fn |-> "StatusCodeToString", arg |-> code,
                ret |-> StatusCodeToString(code)]
    /\ UNCHANGED <<regVars, genVars, build, rtVars, uiVars>>

CallStatusCodeFromString(code) ==
    /\ call.fn = "" \/ (call.fn = "StatusCodeToString" /\ code = call.ret)
    /\ call' = [fn |-> "StatusCodeFromString", arg |-> code,
                ret |-> StatusCodeFromString(code)]
    /\ UNCHANGED <<regVars, genVars, build, rtVars, uiVars>>

CallSanitizeSchemaName(name) ==
    /\ call.fn = "" \/ (call.fn = "SanitizeSchemaName" /\ name = call.ret)
    /\ call' = [fn |-> "SanitizeSchemaName", arg |-> name,
                ret |-> SanitizeSchemaName(name)]
    /\ UNCHANGED <<regVars, genVars, build, rtVars, uiVars>>

CallNormalizePath(p) ==
    /\ call.fn = "" \/ (call.fn = "normalizePath" /\ p = call.ret)
    /\ call' = [fn |-> "normalizePath", arg |-> p, ret |-> normalizePath(p)]
    /\ UNCHANGED <<regVars, genVars, build, rtVars, uiVars>>

NextFn ==
    \/ \E code \in (0 - MaxCode)..MaxCode : CallStatusCodeToString(code)
    \/ \E code \in CodeStrings \cup {call.ret} : CallStatusCodeFromString(code)
    \/ \E name \in NameStrings \cup {call.ret} : CallSanitizeSchemaName(name)
    \/ \E p \in PathStrings \cup {call.ret} : CallNormalizePath(p)

SpecFn == InitFn /\ [][NextFn]_vars

----------------------------------------------------------------------------
(* The router: Use, WithTags, WithSecurity, Group and Handle on the root
   router and its groups, and requests served through the shared mux.
   A HandlerFunc is modelled by what a call of it runs: the list of the
   middlewares and the handler entered, in order.  A middleware enters
   itself and then calls next.  The middleware or handler passed to a call
   is named by the number of the call. *)

Middleware(id) == [kind |-> "middleware", id |-> id]

Handler(id) == [kind |-> "handler", id |-> id]

\* a MiddlewareFunc applied to next
Wrap(m, next) == <<m>> \o next

\* path.Join: the non-empty elements joined by "/" and cleaned
PathJoin(a, b) ==
    LET elems == SelectSeq(<<a, b>>, LAMBDA e : e # <<>>) IN
    IF elems = <<>> THEN <<>> ELSE Clean(Join(elems, "/"))

\* router.go:268-277 New, 312-320 the Router value of a group
NewRouter(prefix, middlewares, parent, created) ==
    [prefix |-> prefix, middlewares |-> middlewares, parent |-> parent,
     routes |-> <<>>, tags |-> <<>>, security |-> <<>>,
     created |-> created, open |-> TRUE]

\* the loop of buildMiddlewareChain from position i down to the first
RECURSIVE WrapDown(_, _, _)
WrapDown(middlewares, i, h) ==
    IF i < 1 THEN h ELSE WrapDown(middlewares, i - 1, Wrap(middlewares[i], h))

\* a loop from position i up to the last
RECURSIVE WrapUp(_, _, _)
WrapUp(middlewares, i, h) ==
    IF i > Len(middlewares) THEN h ELSE WrapUp(middlewares, i + 1, Wrap(middlewares[i], h))

\* mutation: the middlewares are applied first to last, the last outermost
buildMiddlewareChain_Forward(middlewares, handler) ==
    IF Len(middlewares) = 0 THEN handler ELSE WrapUp(middlewares, 1, handler)

\* router.go:417-430  the middlewares are applied last to first
buildMiddlewareChain(middlewares, handler) ==
    IF Len(middlewares) = 0 THEN handler
    ELSE WrapDown(middlewares, Len(middlewares), handler)

\* mutation: the options are applied before the router's tags and
\* requirements are appended
HandleMetadata_OptionsFirst(r, method, fullpath, opts) ==
    LET m == ApplyOptions(Reg, NewRouteMetadata(method, fullpath), opts).m IN
    [m EXCEPT !.Tags = m.Tags \o r.tags, !.Security = m.Security \o r.security]

\* router.go:341-360  the metadata of a route registered on router r
HandleMetadata(r, method, fullpath, opts) ==
    LET m == NewRouteMetadata(method, fullpath) IN
    ApplyOptions(Reg,
                 [m EXCEPT !.Tags = IF Len(r.tags) > 0 THEN m.Tags \o r.tags ELSE m.Tags,
                           !.Security = IF Len(r.security) > 0
                                        THEN m.Security \o r.security ELSE m.Security],
                 opts).m

Pattern(method, fullpath) == <<method, " ">> \o fullpath

BearerRead == MapSet(EmptyMap, "bearerAuth", <<"read">>)

BasicAuth == MapSet(EmptyMap, "basicAuth", <<>>)

ApiKey == MapSet(EmptyMap, "apiKey", <<>>)

RouterTags == {<<"users", "admin">>}

RouterRequirements == {<<BearerRead, ApiKey>>}

\* the Handle calls of the program: one route without options and one with
HandleCalls ==
    { [subpath |-> <<"/", "a">>, opts |-> <<>>],
      [subpath |-> <<"b", "/">>,
       opts |-> <<WithTags(<<"own">>), WithSecurity(<<BasicAuth>>),
                  WithOperationID("op")>>] }

SubPaths == {<<"/", "a">>, <<"b", "/">>}

GroupPaths == {<<"/", "g">>}

\* router.go:268-277  New
InitRouter ==
    /\ types = EmptyMap
    /\ entries = <<>>
    /\ mu = "free"
    /\ pc = [p \in Procs |-> "idle"]
    /\ loc = [p \in Procs |-> NoLocals]
    /\ calls = 0
    /\ log = <<>>
    /\ lin = [types |-> EmptyMap, entries |-> <<>>]
    /\ routes = <<>>
    /\ routeOpts = <<>>
    /\ schemas = EmptyMap
    /\ spec = [Paths |-> EmptyMap, Schemas |-> EmptyMap]
    /\ specSel = <<>>
    /\ gens = 0
    /\ build = NoBuild
    /\ call = NoCall
    /\ routers = <<NewRouter(<<>>, <<>>, 0, 0)>>
    /\ mux = EmptyMap
    /\ now = 0
    /\ served = <<>>
    /\ specURL = ""

\* router.go:304-306  Router.Use
RouterUse(i) ==
    /\ routers[i].open
    /\ now < MaxRouterCalls
    /\ now' = now + 1
    /\ routers' = [routers EXCEPT ![i].middlewares = Append(@, Middleware(now + 1))]
    /\ UNCHANGED <<mux, served>>

\* router.go:282-285  Router.WithTags
RouterWithTags(i, tags) ==
    /\ routers[i].open
    /\ Len(routers[i].tags) + Len(tags) <= MaxTags
    /\ routers' = [routers EXCEPT ![i].tags = @ \o tags]
    /\ UNCHANGED <<mux, now, served>>

\* router.go:290-299  Router.WithSecurity
RouterWithSecurity(i, requirements) ==
    /\ routers[i].open
    /\ Len(routers[i].security) + Len(requirements) <= MaxTags
    /\ routers' = [routers EXCEPT ![i].security = @ \o CopyRequirements(requirements)]
    /\ UNCHANGED <<mux, now, served>>

\* router.go:311-321  Router.Group up to the call of fn: the group starts
\* with a copy of the middlewares of r and with no tags and requirements
RouterGroup(i, path) ==
    /\ routers[i].open
    /\ Len(routers) < MaxRouters
    /\ now < MaxRouterCalls
    /\ now' = now + 1
    /\ routers' = Append(routers,
                         NewRouter(routers[i].prefix \o path, routers[i].middlewares,
                                   i, now + 1))
    /\ UNCHANGED <<mux, served>>

\* router.go:321-325  fn has returned: the routes of the group are appended
\* to the routes of r
GroupReturn(g) ==
    /\ routers[g].open
    /\ routers[g].parent # 0
    /\ \A j \in 1..Len(routers) : routers[j].parent = g => ~routers[j].open
    /\ routers' = [routers EXCEPT ![g].open = FALSE,
                                  ![routers[g].parent].routes = @ \o routers[g].routes]
    /\ UNCHANGED <<mux, now, served>>

\* router.go:331-377  Router.Handle; a pattern registered twice makes
\* ServeMux.HandleFunc panic, which ends the program
RouterHandle(i, method, subpath, opts) ==
    /\ routers[i].open
    /\ now < MaxRouterCalls
    /\ \E fullpath \in {normalizePath(PathJoin(routers[i].prefix, subpath))} :
       \E finalHandler \in {buildMiddlewareChain(routers[i].middlewares,
                                                 <<Handler(now + 1)>>)} :
        /\ Pattern(method, fullpath) \notin DOMAIN mux
        /\ routers' = [routers EXCEPT ![i].routes =
                         Append(@, [method |-> method, path |-> fullpath,
                                    handler |-> finalHandler,
                                    metadata |-> HandleMetadata(routers[i], method,
                                                                fullpath, opts)])]
        /\ mux' = MapSet(mux, Pattern(method, fullpath), finalHandler)
    /\ now' = now + 1
    /\ UNCHANGED served

\* router.go:434-436  Router.ServeHTTP: the mux runs the handler registered
\* for the pattern of the request
RouterServeHTTP(pattern) ==
    /\ pattern \in DOMAIN mux
    /\ served' = mux[pattern]
    /\ UNCHANGED <<routers, mux, now>>

\* the router with its middlewares: Use, Group, Handle and requests
NextRouter ==
    /\ \/ \E i \in 1..Len(routers) : RouterUse(i)
       \/ \E i \in 1..Len(routers), path \in GroupPaths : RouterGroup(i, path)
       \/ \E g \in 1..Len(routers) : GroupReturn(g)
       \/ \E i \in 1..Len(routers), subpath \in SubPaths :
             RouterHandle(i, "GET", subpath, <<>>)
       \/ \E pattern \in DOMAIN mux : RouterServeHTTP(pattern)
    /\ UNCHANGED <<regVars, genVars, fnVars, uiVars>>

SpecRouter == InitRouter /\ [][NextRouter]_vars

\* the router with its tags and requirements: WithTags, WithSecurity, Group
\* and Handle with and without options
NextTags ==
    /\ \/ \E i \in 1..Len(routers), tags \in RouterTags : RouterWithTags(i, tags)
       \/ \E i \in 1..Len(routers), reqs \in RouterRequirements :
             RouterWithSecurity(i, reqs)
       \/ \E i \in 1..Len(routers), path \in GroupPaths : RouterGroup(i, path)
       \/ \E g \in 1..Len(routers) : GroupReturn(g)
       \/ \E i \in 1..Len(routers), c \in HandleCalls :
             RouterHandle(i, "GET", c.subpath, c.opts)
    /\ UNCHANGED <<regVars, genVars, fnVars, uiVars>>

SpecTags == InitRouter /\ [][NextTags]_vars

----------------------------------------------------------------------------
(* Properties of the type registry *)

Qualified(t) == QualifiedName(t.PkgPath, t.Name)

HasEntry(t) == FullID(t.PkgPath, t.Name) \in DOMAIN types

EntryOf(t) == entries[types[FullID(t.PkgPath, t.Name)]]

CountOf(t) == IF HasEntry(t) THEN EntryOf(t).Count ELSE 0

\* the positions in log of the calls made for identity t, in order
CallsOf(t) == SelectSeq([i \in 1..Len(log) |-> i], LAMBDA i : log[i].t = t)

\* no call before position i was for a type of the same simple name
FreshName(i) == \A k \in 1..(i - 1) : log[k].t.Name # log[i].t.Name

\* C1: a name returned for one TypeIdentity is never returned for a
\* different TypeIdentity, at any two points of a sequence of RegisterType
\* calls.
C1_NoSharedName ==
    \A i, j \in 1..Len(log) :
        log[i].t # log[j].t => log[i].name # log[j].name

\* C2 as stated: once the first RegisterType call for an identity has
\* returned the bare simple name, every later call for it returns that name.
C2_StableAfterFirst ==
    \A t \in TypeIds :
        LET c == CallsOf(t) IN
        (Len(c) >= 1 /\ log[c[1]].name = t.Name) =>
            \A k \in 2..Len(c) : log[c[k]].name = log[c[1]].name

\* C2 amended: once an identity has been registered twice, its display name
\* is stable: every call after the first returns the name the second call
\* returned, which is the bare simple name or sanitize(ns + "_" + N); only
\* between the first and the second call may a colliding registration
\* rewrite it.
C2_StableFromSecond ==
    \A t \in TypeIds :
        LET c == CallsOf(t) IN
        \A k \in 2..Len(c) :
            /\ log[c[k]].name = log[c[2]].name
            /\ log[c[k]].name \in {t.Name, Qualified(t)}
            /\ (log[c[1]].name # t.Name => log[c[k]].name = log[c[1]].name)

C2_Witness ==
    \E t \in TypeIds :
        LET c == CallsOf(t) IN
        /\ Len(c) >= 3
        /\ log[c[1]].name = t.Name
        /\ log[c[2]].name = Qualified(t)
        /\ log[c[3]].name = Qualified(t)

\* C3: for a simple name N not seen before, RegisterType(ns1.N) followed by
\* RegisterType(ns2.N), ns1 # ns2, leaves the two identities with two
\* distinct display names sanitize(ns1_N) and sanitize(ns2_N), and a
\* following RegisterType(ns1.N) returns sanitize(ns1_N), not N.
C3_CollisionDeterminism ==
    \A i \in 1..(Len(log) - 1) :
        (/\ FreshName(i)
         /\ log[i].t.Name = log[i + 1].t.Name
         /\ log[i].t # log[i + 1].t) =>
            LET q1 == Qualified(log[i].t)
                q2 == Qualified(log[i + 1].t)
            IN  /\ log[i + 1].name = q2
                /\ q1 # q2
                /\ (Len(log) = i + 1 /\ mu = "free") =>
                        /\ EntryOf(log[i].t).FinalName = q1
                        /\ EntryOf(log[i + 1].t).FinalName = q2
                /\ (Len(log) >= i + 2 /\ log[i + 2].t = log[i].t) =>
                        /\ log[i + 2].name = q1
                        /\ log[i + 2].name # log[i].t.Name

\* C4: registering the same identity twice in a row returns the same name
\* both times; the occurrence-count of an identity's entry never decreases,
\* and a registration that finds the full-key entry raises it by exactly one.
C4_Idempotent ==
    [][ /\ \A t \in TypeIds : CountOf(t)' >= CountOf(t)
        /\ \A p \in Procs :
              (pc[p] = "exact" /\ pc'[p] # "exact" /\ HasEntry(loc[p].t)) =>
                  /\ CountOf(loc[p].t)' = CountOf(loc[p].t) + 1
                  /\ loc'[p].ret = EntryOf(loc[p].t).FinalName
        /\ (Len(log') > Len(log) /\ Len(log) >= 1
                /\ log'[Len(log')].t = log[Len(log)].t) =>
              log'[Len(log')].name = log[Len(log)].name ]_vars

C4_Witness ==
    \E i \in 1..(Len(log) - 1) :
        /\ log[i].t = log[i + 1].t
        /\ log[i].name = log[i + 1].name
        /\ log[i].name = Qualified(log[i].t)
        /\ mu = "free"
        /\ CountOf(log[i].t) >= 2

\* C5: concurrent RegisterType calls are serialized by the registry lock:
\* at most one caller is past Lock; a caller that has just taken the lock
\* sees exactly the registry left by the returned calls run one after the
\* other (never a half-done collision step); and a caller about to return
\* holds the return value and leaves the registry of that sequential run.
C5_Serialized ==
    /\ Cardinality({p \in Procs : pc[p] \notin {"idle", "lock"}}) <= 1
    /\ \A p \in Procs :
          /\ pc[p] = "exact" => Reg = lin
          /\ pc[p] = "unlock" =>
                LET s == RegisterType(lin, loc[p].t) IN
                /\ Reg = s.r
                /\ loc[p].ret = s.l.ret

C5_Witness ==
    \E p, q \in Procs :
        /\ pc[p] = "delete"
        /\ pc[q] = "lock"
        /\ loc[q].t.Name = loc[p].t.Name

----------------------------------------------------------------------------
(* Properties of document generation *)

specRoutes == RoutesAt(specSel)

FiveMethods == {"GET", "POST", "PUT", "DELETE", "PATCH"}

Slot(pathItem, method) ==
    CASE method = "GET" -> pathItem.Get
      [] method = "POST" -> pathItem.Post
      [] method = "PUT" -> pathItem.Put
      [] method = "DELETE" -> pathItem.Delete
      [] method = "PATCH" -> pathItem.Patch

\* the positions in specRoutes of the routes with this method and path
RoutesFor(method, path) ==
    {k \in 1..Len(specSel) :
        specRoutes[k].Method = method /\ specRoutes[k].Path = path}

Max(S) == CHOOSE x \in S : \A y \in S : y <= x

\* the route at position k of specRoutes is the one whose operation the
\* document holds
Placed(k) ==
    /\ specRoutes[k].Method \in FiveMethods
    /\ specRoutes[k].Path # SelfPath
    /\ k = Max(RoutesFor(specRoutes[k].Method, specRoutes[k].Path))

OperationOf(k) == Slot(spec.Paths[specRoutes[k].Path], specRoutes[k].Method)[1]

\* every node of a schema tree, the root included
RECURSIVE Nodes(_)
Nodes(s) ==
    {s} \cup (IF s.Items # <<>> THEN Nodes(s.Items[1]) ELSE {})
        \cup (IF s.Properties # <<>>
              THEN UNION {Nodes(s.Properties[1][k]) : k \in DOMAIN s.Properties[1]}
              ELSE {})

\* the request-body and response content schemas of a route descriptor
RouteContentSchemas(route) ==
    (IF route.RequestBody # <<>>
     THEN {route.RequestBody[1].Content[c].Schema : c \in DOMAIN route.RequestBody[1].Content}
     ELSE {})
    \cup UNION {IF route.Responses[code].Content = <<>> THEN {}
                ELSE {route.Responses[code].Content[1][c].Schema :
                        c \in DOMAIN route.Responses[code].Content[1]} :
                code \in DOMAIN route.Responses}

\* the request-body and response media types of an operation of the document
OperationMediaTypes(operation) ==
    (IF operation.RequestBody # <<>>
     THEN {operation.RequestBody[1].Content[c] : c \in DOMAIN operation.RequestBody[1].Content}
     ELSE {})
    \cup UNION {{operation.Responses[code].Content[c] :
                    c \in DOMAIN operation.Responses[code].Content} :
                code \in DOMAIN operation.Responses}

Operations ==
    UNION {UNION {{Slot(spec.Paths[p], m)[i] : i \in 1..Len(Slot(spec.Paths[p], m))} :
                    m \in FiveMethods} : p \in DOMAIN spec.Paths}

OperationNodes ==
    UNION {UNION {Nodes(mt.Schema) : mt \in OperationMediaTypes(o)} : o \in Operations}

ComponentNodes == UNION {Nodes(spec.Schemas[n]) : n \in DOMAIN spec.Schemas}

\* C6: the component table is built fresh on every Generate call: the
\* components of the returned document are the schemas collected from that
\* call's routes, whatever earlier calls on the same Generator collected.
C6_FreshTable ==
    gens > 0 => spec.Schemas \in collectSchemas({EmptyMap}, specRoutes)

\* C7: after Generate the component table has an entry under
\* generate-schema-name(n) for every object node n with a non-empty
\* display-type-name reachable, through properties and array elements, from
\* a request-body or response content schema of an input route.
C7_AllObjectsCollected ==
    gens > 0 =>
        \A k \in 1..Len(specSel) :
            \A s \in RouteContentSchemas(specRoutes[k]) :
                \A n \in Nodes(s) :
                    (n.Type = "object" /\ n.TypeName # <<>>) =>
                        generateSchemaName(n) \in DOMAIN spec.Schemas

ArrayOfComposite(t) ==
    /\ t.Kind \in {"slice", "array"}
    /\ t.Elem[1].Kind = "struct"
    /\ ~IsTimeTime(t.Elem[1])
    /\ t.Elem[1].Name # <<>>

\* the options of the route at position k of specRoutes that build the
\* schema of an array of a composite type
ArrayOptions(k) ==
    {j \in 1..Len(routeOpts[specSel[k]]) :
        LET o == routeOpts[specSel[k]][j] IN
        /\ o.op \in {"WithRequestBody", "WithResponseExample", "WithResponseType"}
        /\ ArrayOfComposite(o.t)}

\* the schema option j of route k built, in the route and in the document
BuiltSchema(k, j) ==
    LET o == routeOpts[specSel[k]][j] IN
    IF o.op = "WithRequestBody"
    THEN specRoutes[k].RequestBody[1].Content[ContentJSON].Schema
    ELSE specRoutes[k].Responses[Itoa(o.code)].Content[1][ContentJSON].Schema

ResolvedMediaType(k, j) ==
    LET o == routeOpts[specSel[k]][j] IN
    IF o.op = "WithRequestBody"
    THEN OperationOf(k).RequestBody[1].Content[ContentJSON]
    ELSE OperationOf(k).Responses[Itoa(o.code)].Content[ContentJSON]

\* the display name the registry gave the element type when the schema was
\* built
ElementDisplayName(k, j) ==
    LET o == routeOpts[specSel[k]][j]
        built == BuiltSchema(k, j)
    IN IF o.op = "WithResponseType" THEN built.Items[1].TypeName
       ELSE TrimPrefix(built.TypeName, <<"[", "]">>)

\* C8: the schema built for an array of a registered composite type T is, in
\* the generated document, an array node whose element is a Reference to
\* "#/components/schemas/" + sanitize(display name of T) and nothing else.
C8_ArrayResolvesToRef ==
    gens > 0 =>
        \A k \in 1..Len(specSel) :
            Placed(k) =>
                \A j \in ArrayOptions(k) :
                    LET T == routeOpts[specSel[k]][j].t.Elem[1]
                        n == ElementDisplayName(k, j)
                        out == ResolvedMediaType(k, j)
                    IN /\ n \in {T.Name, Qualified(T)}
                       /\ out.SchemaRef = <<>>
                       /\ out.Schema.Type = "array"
                       /\ out.Schema.Items =
                            <<[ZeroSchema EXCEPT !.Ref = RefPrefix \o SanitizeSchemaName(n)]>>

C8_Witness ==
    /\ gens > 0
    /\ \E k \in 1..Len(specSel) :
          /\ Placed(k)
          /\ \E j \in ArrayOptions(k) :
                /\ routeOpts[specSel[k]][j].op = "WithRequestBody"
                /\ SanitizeSchemaName(ElementDisplayName(k, j)) # ElementDisplayName(k, j)
                /\ ResolvedMediaType(k, j).Schema.Items[1].Ref # <<>>
    /\ \E k \in 1..Len(specSel) :
          /\ Placed(k)
          /\ \E j \in ArrayOptions(k) :
                /\ routeOpts[specSel[k]][j].op = "WithResponseType"
                /\ ResolvedMediaType(k, j).Schema.Items[1].Ref # <<>>

IsPureReference(n) ==
    /\ n.Type = ""
    /\ n.Properties = <<>>
    /\ n.Items = <<>>
    /\ n.Required = <<>>
    /\ n.Example = <<>>

\* C9: in every document returned by Generate, a schema node with a
\* non-empty $ref carries none of type, properties, items, required and
\* example, in a request body, a response or a component schema.
C9_ReferencesArePure ==
    /\ \A n \in OperationNodes \cup ComponentNodes :
          n.Ref # <<>> => IsPureReference(n)
    /\ \A o \in Operations :
          \A mt \in OperationMediaTypes(o) :
              mt.SchemaRef # <<>> => mt.Schema = ZeroSchema

C9_Witness ==
    /\ \E n \in OperationNodes : n.Ref # <<>>
    /\ \E n \in ComponentNodes : n.Ref # <<>>

FreshDocuments ==
    {[Paths |-> RemoveSelfPath(AssemblePaths(EmptyMap, specRoutes)), Schemas |-> table] :
        table \in collectSchemas({EmptyMap}, specRoutes)}

\* C11: after Generate, the paths table of the returned document has no
\* entry for the self-describing path "/openapi.json", whether or not a route
\* was given at that path.
C11_SelfPathAbsent ==
    gens > 0 => SelfPath \notin DOMAIN spec.Paths

C11_Witness ==
    /\ gens > 0
    /\ \E k \in 1..Len(specSel) : specRoutes[k].Path = SelfPath
    /\ DOMAIN spec.Paths # {}

\* C12: document generation does not mutate its input: a Generate call
\* leaves the request-body and response schema trees of every route
\* descriptor as they were before the call.
C12_InputNotMutated ==
    [][gens' # gens => routes' = routes]_vars

\* C13: for a fixed route list every Generate call returns an equal
\* document, whatever order maps are iterated in and however many Generate
\* calls came before: the document is always the single one a first call on
\* that list returns.
C13_Deterministic ==
    gens > 0 => FreshDocuments = {spec}

\* the json tag of a member up to its first comma
TagHead(field) ==
    LET commas == {i \in 1..Len(field.Json) : field.Json[i] = ","} IN
    IF commas = {} THEN field.Json
    ELSE SubSeq(field.Json, 1, (CHOOSE i \in commas : \A j \in commas : i <= j) - 1)

\* the name a member is serialized under
SerializedName(field) == IF TagHead(field) = <<>> THEN field.Name ELSE TagHead(field)

\* the members that appear in the serialized form
Included(field) == field.Exported /\ TagHead(field) # <<"-">>

\* the member's validation tag has the rule "required"
AnnotatedRequired(field) ==
    \E i \in 1..Len(field.Validate) :
        /\ field.Validate[i] = "required"
        /\ (i = 1 \/ field.Validate[i - 1] = ",")
        /\ (i = Len(field.Validate) \/ field.Validate[i + 1] = ",")

RECURSIVE ExpectedRequired(_)
ExpectedRequired(fields) ==
    IF fields = <<>> THEN <<>>
    ELSE (IF Included(Head(fields)) /\ AnnotatedRequired(Head(fields))
          THEN <<SerializedName(Head(fields))>> ELSE <<>>)
         \o ExpectedRequired(Tail(fields))

\* schema s is the object schema of composite type T
RECURSIVE Conforms(_, _)
Conforms(s, T) ==
    LET members == {i \in 1..Len(T.Fields) : Included(T.Fields[i])} IN
    /\ s.Type = "object"
    /\ s.Required = ExpectedRequired(T.Fields)
    /\ s.Properties # <<>>
    /\ DOMAIN s.Properties[1] = {SerializedName(T.Fields[i]) : i \in members}
    /\ Cardinality(DOMAIN s.Properties[1]) = Cardinality(members)
    /\ \A i \in members :
          LET property == s.Properties[1][SerializedName(T.Fields[i])]
              type == T.Fields[i].Type
          IN /\ type.Kind = "string" => property.Type = "string"
             /\ type.Kind \in IntKinds => property.Type = "integer"
             /\ (type.Kind = "struct" /\ ~IsTimeTime(type)) => Conforms(property, type)

\* the options of route i that build the schema of a composite type
ObjectOptions(i) ==
    {j \in 1..Len(routeOpts[i]) :
        /\ routeOpts[i][j].op \in {"WithRequestBody", "WithResponseType"}
        /\ routeOpts[i][j].t.Kind = "struct"}

\* the schema option j of route i built
RouteSchema(i, j) ==
    IF routeOpts[i][j].op = "WithRequestBody"
    THEN routes[i].RequestBody[1].Content[ContentJSON].Schema
    ELSE routes[i].Responses[Itoa(routeOpts[i][j].code)].Content[1][ContentJSON].Schema

C15_BuilderNeverFails ==
    build.status # "fatal"

\* a decimal numeral: digits after an optional sign
IsNumeral(str) ==
    \E first \in 1..2 :
        /\ first = 2 => (Len(str) >= 1 /\ str[1] \in {"-", "+"})
        /\ Len(str) >= first
        /\ \A i \in first..Len(str) :
              str[i] \in {"0", "1", "2", "3", "4", "5", "6", "7", "8", "9"}

\* C16: StatusCodeFromString(StatusCodeToString(n)) returns n with no
\* error for every status code n, and StatusCodeFromString returns an error
\* for every string that is not a numeral.
C16_StatusCodeRoundTrip ==
    call.fn = "StatusCodeFromString" =>
        /\ \A n \in (0 - MaxCode)..MaxCode :
              call.arg = StatusCodeToString(n) => call.ret = [val |-> n, err |-> FALSE]
        /\ ~IsNumeral(call.arg) => call.ret.err

C16_Witness ==
    /\ call.fn = "StatusCodeFromString"
    /\ call.arg = <<"4", "0", "4">>
    /\ call.ret = [val |-> 404, err |-> FALSE]

\* C17: SanitizeSchemaName is idempotent, and its result is its argument
\* with every '.', '/' and '-' replaced by '_', so it has none of them.
C17_SanitizeIdempotent ==
    call.fn = "SanitizeSchemaName" =>
        /\ SanitizeSchemaName(call.ret) = call.ret
        /\ Len(call.ret) = Len(call.arg)
        /\ \A i \in 1..Len(call.arg) :
              /\ call.ret[i] \notin {".", "/", "-"}
              /\ call.ret[i] = IF call.arg[i] \in {".", "/", "-"} THEN "_" ELSE call.arg[i]

C17_Witness ==
    /\ call.fn = "SanitizeSchemaName"
    /\ call.arg = <<".", "/", "-">>
    /\ call.ret = <<"_", "_", "_">>

\* C20: normalizePath maps the empty string to "/" and every other input
\* to a path that starts with "/", has no "//" and no trailing slash unless
\* it is "/"; normalizePath(normalizePath(p)) = normalizePath(p).
C20_NormalizePath ==
    call.fn = "normalizePath" =>
        /\ call.arg = <<>> => call.ret = <<"/">>
        /\ call.ret # <<>> /\ call.ret[1] = "/"
        /\ \A i \in 1..(Len(call.ret) - 1) : ~(call.ret[i] = "/" /\ call.ret[i + 1] = "/")
        /\ Len(call.ret) > 1 => call.ret[Len(call.ret)] # "/"
        /\ normalizePath(call.ret) = call.ret

C20_Witness ==
    /\ call.fn = "normalizePath"
    /\ call.arg = <<"a", "/", "/", "a", "/">>
    /\ call.ret = <<"/", "a", "/", "a">>

Range(f) == {f[x] : x \in DOMAIN f}

\* every route held by a router
AllRoutes == UNION {Range(routers[i].routes) : i \in 1..Len(routers)}

\* the router a route was registered on: the one that holds it while no
\* group of it does
Owner(rt) ==
    CHOOSE i \in 1..Len(routers) :
        /\ rt \in Range(routers[i].routes)
        /\ \A j \in 1..Len(routers) :
              routers[j].parent = i => rt \notin Range(routers[j].routes)

\* the number of the Handle call that registered the route
Registered(rt) == rt.handler[Len(rt.handler)].id

\* the middlewares on router i at call t: what its parent had when the
\* group was created, then the ones added to the router itself before t
RECURSIVE MiddlewaresAt(_, _)
MiddlewaresAt(i, t) ==
    (IF routers[i].parent = 0 THEN <<>>
     ELSE MiddlewaresAt(routers[i].parent, routers[i].created))
    \o SelectSeq(routers[i].middlewares,
                 LAMBDA m : m.id > routers[i].created /\ m.id < t)

ExpectedRun(rt) ==
    MiddlewaresAt(Owner(rt), Registered(rt)) \o <<Handler(Registered(rt))>>

\* C18: a request to a route runs the middlewares that were on its router
\* when the route was registered, first added outermost, then the handler;
\* a middleware added later, or added on a group of the router, is not run,
\* and a route of a group runs what the parent had when the group was
\* created followed by the group's own.
C18_MiddlewareOrder ==
    /\ \A rt \in AllRoutes :
          /\ rt.handler = ExpectedRun(rt)
          /\ mux[Pattern(rt.method, rt.path)] = rt.handler
          /\ \A k \in 1..(Len(rt.handler) - 1) : rt.handler[k].id < rt.handler[k + 1].id
    /\ served # <<>> => \E rt \in AllRoutes : served = ExpectedRun(rt)

C18_Witness ==
    /\ Len(routers) = 2
    /\ routers[1].middlewares = <<Middleware(1), Middleware(4)>>
    /\ routers[2].middlewares = <<Middleware(1), Middleware(3)>>
    /\ served = <<Middleware(1), Middleware(3), Handler(5)>>

\* the tags and the requirements the route options of the model add
OptionTags == {<<>>, <<"own">>}

OptionSecurity == {<<>>, <<BasicAuth>>}

\* C19: a route registered on a router carries in its metadata all of the
\* tags and security requirements the router has at that moment, placed
\* before the ones its own options add, and keeps them afterwards.
C19_RouterTagsFirst ==
    [][/\ mux' # mux =>
            \E i \in 1..Len(routers) :
                /\ Len(routers'[i].routes) = Len(routers[i].routes) + 1
                /\ \E own \in OptionTags :
                      routers'[i].routes[Len(routers'[i].routes)].metadata.Tags
                          = routers[i].tags \o own
                /\ \E own \in OptionSecurity :
                      routers'[i].routes[Len(routers'[i].routes)].metadata.Security
                          = routers[i].security \o own
       /\ \A i \in 1..Len(routers) : \A k \in 1..Len(routers[i].routes) :
             routers'[i].routes[k] = routers[i].routes[k]]_vars

C19_Witness ==
    \E i \in 1..Len(routers) :
        /\ routers[i].tags = <<"users", "admin">>
        /\ routers[i].security = <<BearerRead, ApiKey>>
        /\ \E k \in 1..Len(routers[i].routes) :
              /\ Owner(routers[i].routes[k]) = i
              /\ routers[i].routes[k].metadata.Tags = <<"users", "admin", "own">>
              /\ routers[i].routes[k].metadata.Security = <<BearerRead, ApiKey, BasicAuth>>

\* the component name a reference names
RefName(ref) == TrimPrefix(ref, RefPrefix)

\* the references of the request bodies and responses of the document
OperationRefs ==
    {n.Ref : n \in {m \in OperationNodes : m.Ref # <<>>}}
    \cup UNION {{mt.SchemaRef[1].Ref : mt \in {m \in OperationMediaTypes(o) : m.SchemaRef # <<>>}} :
                o \in Operations}

\* C21: in every document returned by Generate, every Reference
\* "#/components/schemas/<name>" of a request-body or response schema names
\* a key of that document's components.schemas.
C21_RefsResolve ==
    \A ref \in OperationRefs :
        /\ HasPrefix(ref, RefPrefix)
        /\ RefName(ref) \in DOMAIN spec.Schemas

\* the content entries of the route at position k of specRoutes, each with
\* the entry the operation of the document holds for it
ContentPairs(k) ==
    LET route == specRoutes[k]
        operation == OperationOf(k)
    IN (IF route.RequestBody # <<>>
        THEN {[in |-> route.RequestBody[1].Content[c],
               out |-> operation.RequestBody[1].Content[c]] :
                c \in DOMAIN route.RequestBody[1].Content}
        ELSE {})
       \cup UNION {IF route.Responses[code].Content = <<>> THEN {}
                   ELSE {[in |-> route.Responses[code].Content[1][c],
                          out |-> operation.Responses[code].Content[c]] :
                           c \in DOMAIN route.Responses[code].Content[1]} :
                   code \in DOMAIN route.Responses}

\* the node itself resolves to a component of the document
ResolvesItself(s) ==
    /\ s.Type = "object"
    /\ generateSchemaName(s) # <<>>
    /\ generateSchemaName(s) \in DOMAIN spec.Schemas

\* the media type holds a Reference to the component and nothing else
HoldsReference(mt, name) ==
    \/ /\ mt.SchemaRef = <<[Ref |-> RefPrefix \o name]>>
       /\ mt.Schema = ZeroSchema
    \/ /\ mt.SchemaRef = <<>>
       /\ mt.Schema = [ZeroSchema EXCEPT !.Ref = RefPrefix \o name]

\* C22: for every request-body or response content entry whose schema node
\* itself resolves to a name present in the component table, the operation
\* of the document holds a Reference to that component in place of the
\* node, with none of the node's inline fields.
C22_ResolvedNodeReplaced ==
    gens > 0 =>
        \A k \in 1..Len(specSel) :
            Placed(k) =>
                \A pair \in ContentPairs(k) :
                    ResolvesItself(pair.in.Schema) =>
                        \/ HoldsReference(pair.out, generateSchemaName(pair.in.Schema))
                        \/ HoldsReference(pair.out,
                              SanitizeSchemaName(generateSchemaName(pair.in.Schema)))

\* the display-type-name without a leading array marker
WithoutArrayMarker(name) ==
    IF HasPrefix(name, <<"[", "]">>) THEN TrimPrefix(name, <<"[", "]">>) ELSE name

\* every schema node of the content schemas of the routes of the last call
InputNodes ==
    UNION {UNION {Nodes(s) : s \in RouteContentSchemas(specRoutes[k])} :
             k \in 1..Len(specSel)}

\* C23: generateSchemaName returns the sanitized display-type-name, a
\* leading "[]" stripped first, so every key of the component table is free
\* of '.', '/' and '-'; an empty display-type-name yields no registration.
C23_NamesSanitized ==
    gens > 0 =>
        /\ \A n \in InputNodes :
              generateSchemaName(n) = SanitizeSchemaName(WithoutArrayMarker(n.TypeName))
        /\ \A key \in DOMAIN spec.Schemas :
              /\ key # <<>>
              /\ \A i \in 1..Len(key) : key[i] \notin {".", "/", "-"}

\* the nodes of the input routes that the collector registers
RegisteredNodes ==
    {n \in {SchemaFromMetadataSchema(m) : m \in InputNodes} :
        IsComponent(n) /\ generateSchemaName(n) # <<>>}

\* C24: any two schema nodes reachable from the input routes that generate
\* the same component name are structurally identical, so the component
\* table is the same whatever order the nodes are visited in.
C24_SameNameSameNode ==
    gens > 0 =>
        /\ \A n1, n2 \in RegisteredNodes :
              generateSchemaName(n1) = generateSchemaName(n2) => n1 = n2
        /\ Cardinality(collectSchemas({EmptyMap}, specRoutes)) = 1

\* the slot of a path entry for any HTTP method
MethodSlot(pathItem, method) ==
    CASE method = "OPTIONS" -> pathItem.Options
      [] method = "HEAD" -> pathItem.Head
      [] method = "TRACE" -> pathItem.Trace
      [] OTHER -> Slot(pathItem, method)

\* C25: for every input route whose path is not the self-describing path,
\* the document has the operation built from that route at
\* paths[route.path][route.method], whatever the method, unless a later
\* route with the same path and method replaced it.
C25_EveryRoutePlaced ==
    gens > 0 =>
        \A k \in 1..Len(specSel) :
            (/\ specRoutes[k].Path # SelfPath
             /\ k = Max(RoutesFor(specRoutes[k].Method, specRoutes[k].Path))) =>
                /\ specRoutes[k].Path \in DOMAIN spec.Paths
                /\ MethodSlot(spec.Paths[specRoutes[k].Path], specRoutes[k].Method)
                      = <<BuildOperation(specRoutes[k])>>

\* C26: for every spec path passed to SetupRoutes, the document served at
\* that path has no paths entry for the route that serves the document.
C26_DocumentRouteAbsent ==
    (gens > 0 /\ specURL # "") => specURL \notin DOMAIN spec.Paths

\* the text N of the member's validation rule "key=N", <<>> without the rule
RuleText(field, key) ==
    LET rules == Split(field.Validate, ",")
        mine == {i \in 1..Len(rules) : HasPrefix(rules[i], <<key, "=">>)}
    IN  IF mine = {} THEN <<>>
        ELSE <<TrimPrefix(rules[CHOOSE i \in mine : \A j \in mine : j <= i], <<key, "=">>)>>

\* the member holds a number
IsNumber(t) == t.Kind \in IntKinds \cup {"float32", "float64"}

\* the length bound the rule "key=N" gives a string member
LengthBound(field, key) ==
    IF IsString(field.Type) /\ RuleText(field, key) # <<>>
    THEN <<Atoi(RuleText(field, key)[1]).val>>
    ELSE <<>>

\* the composite type whose schema the builder returned, and that schema
BuiltComposite ==
    /\ build.status = "returned"
    /\ build.input.Kind = "struct"
    /\ ~IsTimeTime(build.input)

MemberSchema(field) == build.stack[1].Properties[1][SerializedName(field)]

\* C27: in the schema built for a composite type, every member's schema has
\* minLength N exactly when the member is a string with min=N, maxLength N
\* exactly when it is a string with max=N, and a minimum exactly when it is
\* a number with min=N (the minimum being N); no other bound is set.
C27_ValidationBounds ==
    BuiltComposite =>
        \A i \in 1..Len(build.input.Fields) :
            LET field == build.input.Fields[i] IN
            Included(field) =>
                /\ MemberSchema(field).MinLength = LengthBound(field, "min")
                /\ MemberSchema(field).MaxLength = LengthBound(field, "max")
                /\ (MemberSchema(field).Minimum # <<>>)
                      <=> (IsNumber(field.Type) /\ RuleText(field, "min") # <<>>)
                /\ (IsNumber(field.Type) /\ RuleText(field, "min") # <<>>
                      /\ Atoi(RuleText(field, "min")[1]).ok)
                      => MemberSchema(field).Minimum = <<Atoi(RuleText(field, "min")[1]).val>>

\* the fields of an array node apart from its element (the display name is
\* not part of the document: its json tag is "-")
Wrapper(s) == [s EXCEPT !.Items = <<>>, !.TypeName = <<>>]

\* the operation's entry holds an array whose element is a Reference, for a
\* route entry that holds an array
ElementIsReference(pair) ==
    /\ pair.in.Schema.Type = "array"
    /\ pair.in.Schema.Items # <<>>
    /\ pair.out.Schema.Type = "array"
    /\ pair.out.Schema.Items # <<>>
    /\ pair.out.Schema.Items[1].Ref # <<>>

\* C28: for every request-body or response content entry that is an array
\* whose element is a Reference in the generated operation, the array node of
\* the operation has the same example, description and other fields as the
\* array node of the route's schema.
C28_ArrayWrapperKept ==
    gens > 0 =>
        \A k \in 1..Len(specSel) :
            Placed(k) =>
                \A pair \in ContentPairs(k) :
                    ElementIsReference(pair) =>
                        Wrapper(pair.out.Schema) = Wrapper(pair.in.Schema)

\* the registry of a program that has built no schema yet
NewRegistry == [types |-> EmptyMap, entries |-> <<>>]

\* members i and j of the built composite type: j is a pointer to the type
\* of i and carries the same validation annotations
PointerTwin(i, j) ==
    /\ Included(build.input.Fields[i])
    /\ Included(build.input.Fields[j])
    /\ build.input.Fields[j].Type = PtrTo(build.input.Fields[i].Type)
    /\ build.input.Fields[j].Validate = build.input.Fields[i].Validate

\* C29: the schema built for a pointer to T is the schema built for T, as
\* the top-level type, and as a member of a composite type next to a member
\* of type T with the same annotations.
C29_PointerSameAsTarget ==
    /\ (build.status = "returned" /\ build.input.Kind = "ptr") =>
           build.stack[1] = SchemaFromType(NewRegistry, build.input.Elem[1]).s
    /\ BuiltComposite =>
           \A i, j \in 1..Len(build.input.Fields) :
               PointerTwin(i, j) =>
                   MemberSchema(build.input.Fields[j]) = MemberSchema(build.input.Fields[i])

\* the example of a type as the specification describes it: <<>> when absent
RECURSIVE TypeExample(_)
TypeExample(t) ==
    IF IsTimeTime(t) THEN <<Scalar("string", TimeExample)>>
    ELSE CASE t.Kind = "struct" ->
                LET shown == {i \in 1..Len(t.Fields) :
                                /\ Included(t.Fields[i])
                                /\ TypeExample(t.Fields[i].Type) # <<>>}
                    last(n) == CHOOSE i \in shown :
                                 /\ SerializedName(t.Fields[i]) = n
                                 /\ \A j \in shown :
                                       SerializedName(t.Fields[j]) = n => j <= i
                IN <<ExObject([n \in {SerializedName(t.Fields[i]) : i \in shown} |->
                                 TypeExample(t.Fields[last(n)].Type)[1]])>>
           [] t.Kind \in {"slice", "array"} ->
                IF TypeExample(t.Elem[1]) # <<>>
                THEN <<ExArray(TypeExample(t.Elem[1]))>>
                ELSE <<>>
           [] OTHER -> getExampleValue(t)

\* C30: the example of the schema built for a composite type maps the
\* serialized name of every included member to the member's example (canned
\* value, timestamp literal, nested mapping, or one-element sequence of the
\* element's example), leaving out exactly the members without an example.
C30_ExampleOfComposite ==
    BuiltComposite => build.stack[1].Example = TypeExample(build.input)

====
